---- MODULE Spec2Model ----
(***************************************************************************)
(* Product / cart CRUD backend of hands-on/backend (Hono + bun:sqlite).    *)
(* The store is the SQLite schema (products, product_images, carts,        *)
(* cart_items); every route handler is one action, or one action per       *)
(* stretch between two awaits.  bun:sqlite statements are synchronous and  *)
(* the server is one JavaScript thread, so the code between two awaits     *)
(* runs atomically.                                                        *)
(***************************************************************************)
EXTENDS Integers, FiniteSets, Sequences, TLC

VARIABLES
    db,         \* the SQLite tables: products, product_images, carts, cart_items
    uuid,       \* randomUUID() per table: the next fresh id (ids are never reused)
    pending,    \* the number of handlers suspended at `await c.req.json()`
    clock,      \* what new Date() returns
    resp,       \* the request handled by the last step and its response
    before,     \* history: db as the last step found it
    hist,       \* history of the add-item requests, per (cart, product) pair
    uploading,  \* the POST /:id/images handlers suspended at an await, per slot
    disk,       \* the files under process.cwd()
    session,    \* the browser of lib/session.ts: localStorage and what was returned
    queryClient,\* the react-query client of the cart hooks and the server it calls
    bitcoin     \* the /bitcoin-info server of example_codex_gpt5: cache and clock

vars ==
    <<db, uuid, pending, clock, resp, before, hist, uploading, disk, session,
      queryClient, bitcoin>>

\* the store and the handlers of hands-on/backend
backend == <<db, uuid, pending, clock, resp, before, hist, uploading, disk>>

\* the programs that run apart from hands-on/backend
elsewhere == <<session, queryClient, bitcoin>>

\* ------------------------------------------------------------------ bounds
MaxProducts == 2
MaxClock == 1
MaxInflight == 2
MaxCarts == 2
MaxItems == 2
MaxAdds == 2
MaxImages == 2
MaxFiles == 2
MaxUploads == 1

\* ------------------------------------------------------------------ inputs
Undefined == "<undefined>"      \* a field the JSON body does not carry

ProductIds == 1..MaxProducts
UnknownId == 0                  \* a route parameter naming no row ever stored

\* The ids a client can name: those the server has handed out so far (`next`
\* is the next fresh one), stored or deleted since, and one it never did.
Issued(next) == 1..(next - 1)
RouteIds(next) == {UnknownId} \cup Issued(next)

Body(n, d, p, s) == [name |-> n, description |-> d, price |-> p, sku |-> s]

ValidBodies ==
    { Body("N1", "D1", 10, "A1"), Body("N2", "D2", 15, "B2"),
      Body("N2", "D2", 15, "A1"), Body("N1", "D1", 10, "B2"),
      Body("N2", "D2", 15, "C3") }

InvalidBodies ==
    { Body("", "D1", 10, "A1"), Body(Undefined, "D1", 10, "A1"),
      Body("N1", "", 10, "A1"), Body("N1", Undefined, 10, "A1"),
      Body("N1", "D1", 0, "A1"), Body("N1", "D1", -5, "A1"),
      Body("N1", "D1", 10, ""), Body("N1", "D1", 10, Undefined) }

Bodies == ValidBodies \cup InvalidBodies

NoBody == Body(Undefined, Undefined, 0, Undefined)

\* ------------------------------------------------------------ zod schemas
\* z.string().min(1)
NonEmptyString(v) == v # Undefined /\ v # ""

\* z.number().positive()
PositiveNumber_AllowsZero(v) == v >= 0

PositiveNumber(v) == v > 0

createProductSchema(body) ==
    /\ NonEmptyString(body.name)
    /\ NonEmptyString(body.description)
    /\ PositiveNumber(body.price)
    /\ NonEmptyString(body.sku)

updateProductSchema(body) ==
    /\ NonEmptyString(body.name)
    /\ NonEmptyString(body.description)
    /\ PositiveNumber(body.price)
    /\ NonEmptyString(body.sku)

\* ---------------------------------------------------------- table products
\* The index SQLite keeps for `sku TEXT NOT NULL UNIQUE`: the rows holding a sku.
\* Both the UNIQUE check of a write and `WHERE sku = $sku` go through it.
SkuIndex_WrongColumn(rows, sku) == {id \in DOMAIN rows : rows[id].name = sku}

SkuIndex(rows, sku) == {id \in DOMAIN rows : rows[id].sku = sku}

\* statements.getProductById.get({ $id }): the row, as a set of at most one id
getProductById(rows, id) == {i \in DOMAIN rows : i = id}

\* statements.getProductBySku.get({ $sku })
getProductBySku(rows, sku) == SkuIndex(rows, sku)

\* SQLITE_CONSTRAINT: a write that would leave two rows with one sku throws
UniqueSkuViolated(rows, id, sku) == SkuIndex(rows, sku) \ {id} # {}

\* statements.insertProduct.run({...})
insertProduct(rows, row) ==
    [i \in DOMAIN rows \cup {row.id} |->
        IF i = row.id
        THEN [name |-> row.name, description |-> row.description,
              price |-> row.price, sku |-> row.sku, createdAt |-> row.createdAt]
        ELSE rows[i]]

\* statements.updateProduct.run({ $id, $name, $description, $price, $sku })
updateProduct(rows, p) ==
    [i \in DOMAIN rows |->
        IF i = p.id
        THEN [rows[i] EXCEPT !.name = p.name, !.description = p.description,
                             !.price = p.price, !.sku = p.sku]
        ELSE rows[i]]

\* PRAGMA foreign_keys of the connection db.ts opens
foreign_keys == TRUE

\* FOREIGN KEY (column) REFERENCES parent(id) ON DELETE CASCADE: the child rows
\* left when parent row `id` goes
OnDeleteCascade_KeepsRows(rows, column, id) == rows

OnDeleteCascade(rows, column, id) ==
    IF foreign_keys
    THEN [i \in {j \in DOMAIN rows : rows[j][column] # id} |-> rows[i]]
    ELSE rows

\* FOREIGN KEY (column) REFERENCES parent(id): an insert naming no parent row throws
ForeignKeyViolated_Never(parent, id) == FALSE

ForeignKeyViolated(parent, id) == foreign_keys /\ id \notin DOMAIN parent

\* statements.deleteProduct.run({ $id })
deleteProduct(d, id) ==
    [d EXCEPT !.products = [i \in DOMAIN @ \ {id} |-> @[i]],
              !.product_images = OnDeleteCascade(@, "productId", id),
              !.cart_items = OnDeleteCascade(@, "product_id", id)]

\* --------------------------------------------------------------- responses
Reply(route, id, body, status, error) ==
    [route |-> route, id |-> id, body |-> body, status |-> status, error |-> error]

NoReply == Reply("", UnknownId, NoBody, 0, "")

\* ------------------------------------------------ exceptions and catch blocks
\* what a try block can see thrown: schema.parse(body) throws a ZodError, the
\* run() of a statement throws when a constraint of the schema is violated
ZodError == [name |-> "ZodError", message |-> "Invalid input"]
UniqueConstraintFailed ==
    [name |-> "SQLiteError", message |-> "UNIQUE constraint failed: products.sku"]
ForeignKeyConstraintFailed ==
    [name |-> "SQLiteError", message |-> "FOREIGN KEY constraint failed"]

\* `catch (error)` of the product routes
productsCatch_Leaks(error) == [status |-> 500, error |-> error.message]

productsCatch(error) == [status |-> 500, error |-> "Internal server error"]

\* `catch (error)` of the cart routes
cartCatch(error) ==
    IF error.name = "ZodError"
    THEN [status |-> 400, error |-> "Dados invalidos"]
    ELSE [status |-> 500, error |-> "Erro interno do servidor"]

\* ------------------------------------------------------------ Init
\* (cart, product) pairs and what the requests asked of each: sum = the
\* quantity an update request last set since the pair had no item (0 when none
\* did) plus the quantities the add-item requests added since; adds = the
\* add-item requests stored so far; repriced = the stored items whose product
\* had its price changed by an update after the item was stored
CartIds == 1..MaxCarts
Pairs == CartIds \X ProductIds
NoHistory == [sum |-> [p \in Pairs |-> 0], adds |-> 0, repriced |-> {}]

ItemsOf(d, cartId, productId) ==
    {i \in DOMAIN d.cart_items :
        d.cart_items[i].cart_id = cartId /\ d.cart_items[i].product_id = productId}

\* hist after a step that left the store as d: `set` is the pair (or <<>>)
\* whose quantity the request set to `quantity`, `added` the pair (or <<>>) it
\* added `quantity` to
Recorded(h, d, set, added, quantity) ==
    [sum |-> [p \in Pairs |->
                IF ItemsOf(d, p[1], p[2]) = {} THEN 0
                ELSE IF p = set THEN quantity
                ELSE IF p = added THEN h.sum[p] + quantity
                ELSE h.sum[p]],
     adds |-> IF added = <<>> THEN h.adds ELSE h.adds + 1,
     repriced |-> h.repriced \cap DOMAIN d.cart_items]

\* hist after a successful update of product id that found the store as d
Repriced(h, d, id, price) ==
    IF d.products[id].price = price THEN h
    ELSE [h EXCEPT !.repriced =
            @ \cup {i \in DOMAIN d.cart_items : d.cart_items[i].product_id = id}]

\* a POST /:id/images handler between two awaits: what its closure holds
Slots == 1..MaxUploads
\* (form: the entries of formData.getAll('images'); files: those the loop has
\* not passed yet)
Handler(stage, id, createdAt, form, files, name, saved) ==
    [stage |-> stage, id |-> id, createdAt |-> createdAt, form |-> form,
     files |-> files, name |-> name, saved |-> saved]
Idle == Handler("idle", UnknownId, 0, <<>>, <<>>, 0, {})

\* a browser that never ran getSessionId
NoItem == -3                    \* localStorage.getItem of a key not set: null
NoSession == [window |-> TRUE, localStorage |-> NoItem, randomUUID |-> 1, returned |-> <<>>]

\* a query client that fetched nothing yet and runs no mutation; the fields
\* are filled in with the cart hooks below
NoQueries == [mounted |-> FALSE]

\* a reply of /bitcoin-info: `cached` tells a reply the handler took from its
\* cache from one it got upstream, `now` is the Date.now() of its request
BitcoinRes(status, data, error, cached, now) ==
    [status |-> status, data |-> data, error |-> error, cached |-> cached, now |-> now]

\* the /bitcoin-info server after start: `let cache = null`, no request in
\* flight (fetching[s] holds the `now` of a handler suspended at await fetch)
NoBitcoin ==
    [cache |-> <<>>, now |-> 0, fetching |-> [s \in 1..MaxInflight |-> <<>>],
     res |-> BitcoinRes(0, 0, "", FALSE, 0)]

EmptyDb == [products |-> <<>>, product_images |-> <<>>, carts |-> <<>>, cart_items |-> <<>>]

Init ==
    /\ db = EmptyDb
    /\ uuid = [product |-> 1, image |-> 1, cart |-> 1, item |-> 1, file |-> 1]
    /\ pending = 0
    /\ clock = 0
    /\ resp = NoReply
    /\ before = EmptyDb
    /\ hist = NoHistory
    /\ uploading = [s \in Slots |-> Idle]
    /\ disk = {}
    /\ session = NoSession
    /\ queryClient = NoQueries
    /\ bitcoin = NoBitcoin

\* A request arrives at a handler that starts with `await c.req.json()`
\* (POST and PUT of products, POST /api/cart, POST and PUT of cart items).  The
\* handler has read nothing of the store yet and holds only its route; the
\* step that resumes it draws the route parameters and the body.
Await ==
    /\ before' = db
    /\ UNCHANGED elsewhere
    /\ UNCHANGED <<uploading, disk>>
    /\ pending < MaxInflight
    /\ pending' = pending + 1
    /\ resp' = NoReply
    /\ UNCHANGED <<db, uuid, clock, hist>>

\* new Date() moves on between two steps
Tick ==
    /\ before' = db
    /\ UNCHANGED elsewhere
    /\ UNCHANGED <<uploading, disk>>
    /\ clock < MaxClock
    /\ clock' = clock + 1
    /\ resp' = NoReply
    /\ UNCHANGED <<db, uuid, pending, hist>>

\* ------------------------------------------------ POST /api/products
\* `if (existingProduct)` of the create handler
CreateSkuExists_Never(rows, data) == FALSE

CreateSkuExists(rows, data) == getProductBySku(rows, data.sku) # {}

\* newProduct of the create handler
newProduct(id, data, now) ==
    [id |-> id, name |-> data.name, description |-> data.description,
     price |-> data.price, sku |-> data.sku, createdAt |-> now]

\* The handler from the resolved body to its response.
CreateProduct(body) ==
    /\ before' = db
    /\ UNCHANGED elsewhere
    /\ UNCHANGED <<uploading, disk>>
    /\ pending > 0
    /\ pending' = pending - 1
    /\ UNCHANGED <<clock, hist>>
    /\ IF ~createProductSchema(body)
       THEN /\ resp' = Reply("POST /api/products", UnknownId, body, 400, "Validation failed")
            /\ UNCHANGED <<db, uuid>>
       ELSE IF CreateSkuExists(db.products, body)
       THEN /\ resp' = Reply("POST /api/products", UnknownId, body, 400, "SKU already exists")
            /\ UNCHANGED <<db, uuid>>
       ELSE /\ uuid.product <= MaxProducts
            /\ uuid' = [uuid EXCEPT !.product = @ + 1]
            /\ IF UniqueSkuViolated(db.products, uuid.product, body.sku)
               THEN /\ resp' = Reply("POST /api/products", uuid.product, body,
                                          productsCatch(UniqueConstraintFailed).status,
                                          productsCatch(UniqueConstraintFailed).error)
                    /\ UNCHANGED db
               ELSE /\ db' = [db EXCEPT !.products = insertProduct(@, newProduct(uuid.product, body, clock))]
                    /\ resp' = Reply("POST /api/products", uuid.product, body, 201, "")

\* ------------------------------------------------ GET /api/products/:id
GetProduct(id) ==
    /\ before' = db
    /\ UNCHANGED elsewhere
    /\ UNCHANGED <<uploading, disk>>
    /\ resp' = IF getProductById(db.products, id) = {}
               THEN Reply("GET /api/products/:id", id, NoBody, 404, "Product not found")
               ELSE Reply("GET /api/products/:id", id, NoBody, 200, "")
    /\ UNCHANGED <<db, uuid, pending, clock, hist>>

\* `if (data.sku !== existingProduct.sku) { ... if (productWithSku) ... }`
UpdateSkuExists_NoOwnSkuExemption(rows, existingProduct, data) ==
    getProductBySku(rows, data.sku) # {}

UpdateSkuExists_NoLookup(rows, existingProduct, data) == FALSE

UpdateSkuExists(rows, existingProduct, data) ==
    /\ data.sku # existingProduct.sku
    /\ getProductBySku(rows, data.sku) # {}

\* the parameters the update handler binds
updateProductParams_KeepsSku(id, data, existingProduct) ==
    [id |-> id, name |-> data.name, description |-> data.description,
     price |-> data.price, sku |-> existingProduct.sku]

updateProductParams(id, data, existingProduct) ==
    [id |-> id, name |-> data.name, description |-> data.description,
     price |-> data.price, sku |-> data.sku]

UpdateProduct(id, body) ==
    /\ before' = db
    /\ UNCHANGED elsewhere
    /\ UNCHANGED <<uploading, disk>>
    /\ pending > 0
    /\ pending' = pending - 1
    /\ UNCHANGED <<uuid, clock>>
    /\ IF ~updateProductSchema(body)
       THEN /\ resp' = Reply("PUT /api/products/:id", id, body, 400, "Validation failed")
            /\ UNCHANGED <<db, hist>>
       ELSE IF getProductById(db.products, id) = {}
       THEN /\ resp' = Reply("PUT /api/products/:id", id, body, 404, "Product not found")
            /\ UNCHANGED <<db, hist>>
       ELSE IF UpdateSkuExists(db.products, db.products[id], body)
       THEN /\ resp' = Reply("PUT /api/products/:id", id, body, 400, "SKU already exists")
            /\ UNCHANGED <<db, hist>>
       ELSE LET p == updateProductParams(id, body, db.products[id]) IN
            IF UniqueSkuViolated(db.products, p.id, p.sku)
            THEN /\ resp' = Reply("PUT /api/products/:id", id, body,
                                       productsCatch(UniqueConstraintFailed).status,
                                       productsCatch(UniqueConstraintFailed).error)
                 /\ UNCHANGED <<db, hist>>
            ELSE /\ db' = [db EXCEPT !.products = updateProduct(@, p)]
                 /\ resp' = Reply("PUT /api/products/:id", id, body, 200, "")
                 /\ hist' = Repriced(hist, db, id, p.price)

\* ------------------------------------------------ DELETE /api/products/:id
\* `if (!existingProduct)` of the delete handler
DeleteProductExists_Always(rows, id) == TRUE

DeleteProductExists(rows, id) == getProductById(rows, id) # {}

DeleteProduct(id) ==
    /\ before' = db
    /\ UNCHANGED elsewhere
    /\ UNCHANGED <<uploading, disk>>
    /\ UNCHANGED <<uuid, pending, clock>>
    /\ IF ~DeleteProductExists(db.products, id)
       THEN /\ resp' = Reply("DELETE /api/products/:id", id, NoBody, 404, "Product not found")
            /\ UNCHANGED db
       ELSE /\ db' = deleteProduct(db, id)
            /\ resp' = Reply("DELETE /api/products/:id", id, NoBody, 204, "")
    /\ hist' = Recorded(hist, db', <<>>, <<>>, 0)

\* ------------------------------------------------ the product routes
NextProducts ==
    \/ Tick
    \/ Await
    \/ \E body \in Bodies : CreateProduct(body)
    \/ \E id \in RouteIds(uuid.product) : GetProduct(id)
    \/ \E id \in RouteIds(uuid.product), body \in Bodies : UpdateProduct(id, body)
    \/ \E id \in RouteIds(uuid.product) : DeleteProduct(id)

SpecProducts == Init /\ [][NextProducts]_vars


\* ====================================================== product images (products.ts)
\* url of an image row: one a JSON body gave, or the public path of an upload
RemoteUrl == [kind |-> "remote", product |-> UnknownId, name |-> 0]
NotAUrl == [kind |-> "invalid", product |-> UnknownId, name |-> 0]
NoPosition == -2                \* a JSON body without `position`

ImageBody(url, position) == [url |-> url, position |-> position]
ImageBodies ==
    { ImageBody(RemoteUrl, NoPosition), ImageBody(RemoteUrl, 1),
      ImageBody(NotAUrl, NoPosition), ImageBody(RemoteUrl, -1) }
NoImageBody == ImageBody(NotAUrl, NoPosition)

\* a multipart request: the entries of formData.getAll('images')
FormBody(files) == [url |-> NotAUrl, position |-> NoPosition, files |-> files]

ContentTypes == {"application/json", "multipart/form-data", "text/plain"}

\* formData.getAll('images'): files and plain form values
FormInputs == { <<>>, <<"text">>, <<"File">>, <<"File", "File">> }

\* z.object({ url: z.string().url(), position: z.number().int().min(0).optional() })
addImageByUrlSchema(body) ==
    /\ body.url.kind = "remote"
    /\ body.position = NoPosition \/ body.position >= 0

\* `/uploads/products/${id}/${uniqueName}`
publicUrl(id, uniqueName) == [kind |-> "uploads", product |-> id, name |-> uniqueName]

\* path.join(UPLOADS_BASE_DIR, 'products', id, uniqueName), UPLOADS_BASE_DIR
\* being path.join(process.cwd(), 'uploads')
filepath(id, uniqueName) == [root |-> "uploads", product |-> id, name |-> uniqueName]

\* path.join(process.cwd(), 'backend', image.url)
localPath(url) == [root |-> "backend/uploads", product |-> url.product, name |-> url.name]

\* image.url.startsWith('/uploads/')
startsWithUploads(url) == url.kind = "uploads"

ImageReply(route, id, body, status, error, images) ==
    [route |-> route, id |-> id, body |-> body, status |-> status, error |-> error,
     images |-> images]

\* statements.getImagesByProductId.all({ $productId })
getImagesByProductId(rows, productId) == {i \in DOMAIN rows : rows[i].productId = productId}

\* statements.getImageById.get({ $id })
getImageById(rows, id) == {i \in DOMAIN rows : i = id}

\* statements.insertProductImage.run({...}) of insertImage
insertProductImage(rows, id, productId, url, position, createdAt) ==
    [i \in DOMAIN rows \cup {id} |->
        IF i = id
        THEN [productId |-> productId, url |-> url, position |-> position,
              createdAt |-> createdAt]
        ELSE rows[i]]

\* statements.deleteImageById.run({ $id })
deleteImageById(rows, id) == [i \in DOMAIN rows \ {id} |-> rows[i]]

\* the files of the upload loop from the next `f instanceof File` on
NextFiles_NoSkip(files) == files

RECURSIVE NextFiles(_)
NextFiles(files) ==
    IF files = <<>> \/ Head(files) = "File" THEN files ELSE NextFiles(Tail(files))

FreeSlots == {s \in Slots : uploading[s] = Idle}

\* ------------------------------------------------ GET /api/products/:id/images
ListProductExists_Always(rows, id) == TRUE

ListProductExists(rows, id) == getProductById(rows, id) # {}

ListImages(id) ==
    /\ before' = db
    /\ UNCHANGED elsewhere
    /\ UNCHANGED <<db, uuid, pending, clock, hist, uploading, disk>>
    /\ resp' = IF ~ListProductExists(db.products, id)
               THEN ImageReply("GET /api/products/:id/images", id, NoImageBody, 404,
                               "Product not found", {})
               ELSE ImageReply("GET /api/products/:id/images", id, NoImageBody, 200, "",
                               getImagesByProductId(db.product_images, id))

\* ------------------------------------------------ POST /api/products/:id/images
\* from the request to the first await, or to the response when there is none
AddImage(id, contentType) ==
    /\ before' = db
    /\ UNCHANGED elsewhere
    /\ UNCHANGED <<db, uuid, pending, clock, hist, disk>>
    /\ IF getProductById(db.products, id) = {}
       THEN /\ resp' = ImageReply("POST /api/products/:id/images", id, NoImageBody, 404,
                                  "Product not found", {})
            /\ UNCHANGED uploading
       ELSE IF contentType = "application/json"
       THEN /\ FreeSlots # {}
            /\ uploading' = [uploading EXCEPT ![CHOOSE s \in FreeSlots : \A t \in FreeSlots : s <= t] =
                                Handler("json", id, clock, <<>>, <<>>, 0, {})]
            /\ resp' = NoReply
       ELSE IF contentType = "multipart/form-data"
       THEN /\ FreeSlots # {}
            /\ uploading' = [uploading EXCEPT ![CHOOSE s \in FreeSlots : \A t \in FreeSlots : s <= t] =
                                Handler("formData", id, clock, <<>>, <<>>, 0, {})]
            /\ resp' = NoReply
       ELSE /\ resp' = ImageReply("POST /api/products/:id/images", id, NoImageBody, 415,
                                  "Unsupported Content-Type", {})
            /\ UNCHANGED uploading

\* from `await c.req.json()` to the response
AddImageJson(s, body) ==
    /\ before' = db
    /\ UNCHANGED elsewhere
    /\ UNCHANGED <<pending, clock, hist, disk>>
    /\ uploading[s].stage = "json"
    /\ uploading' = [uploading EXCEPT ![s] = Idle]
    /\ LET h == uploading[s] IN
       IF ~addImageByUrlSchema(body)
       THEN /\ resp' = ImageReply("POST /api/products/:id/images", h.id, body, 400,
                                  "Validation failed", {})
            /\ UNCHANGED <<db, uuid>>
       ELSE /\ uuid.image <= MaxImages
            /\ uuid' = [uuid EXCEPT !.image = @ + 1]
            /\ IF ForeignKeyViolated(db.products, h.id)
               THEN /\ resp' = ImageReply("POST /api/products/:id/images", h.id, body,
                                          productsCatch(ForeignKeyConstraintFailed).status,
                                          productsCatch(ForeignKeyConstraintFailed).error, {})
                    /\ UNCHANGED db
               ELSE /\ db' = [db EXCEPT !.product_images =
                                insertProductImage(@, uuid.image, h.id, body.url,
                                    IF body.position = NoPosition THEN 0 ELSE body.position,
                                    h.createdAt)]
                    /\ resp' = ImageReply("POST /api/products/:id/images", h.id, body, 201,
                                          "", {uuid.image})

\* from `await c.req.formData()` to the first `await (f as File).arrayBuffer()`,
\* or to the response when no file is left
AddImageForm(s, files) ==
    /\ before' = db
    /\ UNCHANGED elsewhere
    /\ UNCHANGED <<db, pending, clock, hist, disk>>
    /\ uploading[s].stage = "formData"
    /\ LET h == uploading[s] IN
       IF files = <<>>
       THEN /\ resp' = ImageReply("POST /api/products/:id/images", h.id, FormBody(files),
                                  400, "No files provided", {})
            /\ uploading' = [uploading EXCEPT ![s] = Idle]
            /\ UNCHANGED uuid
       ELSE IF NextFiles(files) = <<>>
       THEN /\ resp' = ImageReply("POST /api/products/:id/images", h.id, FormBody(files),
                                  201, "", {})
            /\ uploading' = [uploading EXCEPT ![s] = Idle]
            /\ UNCHANGED uuid
       ELSE /\ uuid.file <= MaxFiles
            /\ uuid' = [uuid EXCEPT !.file = @ + 1]
            /\ uploading' = [uploading EXCEPT ![s] =
                                Handler("write", h.id, h.createdAt, files,
                                        NextFiles(files), uuid.file, {})]
            /\ resp' = NoReply

\* `await fs.promises.writeFile(filepath, ...)`: the file reaches the disk
UploadWrite(s) ==
    /\ before' = db
    /\ UNCHANGED elsewhere
    /\ UNCHANGED <<db, uuid, pending, clock, hist>>
    /\ uploading[s].stage = "write"
    /\ disk' = disk \cup {filepath(uploading[s].id, uploading[s].name)}
    /\ uploading' = [uploading EXCEPT ![s].stage = "written"]
    /\ resp' = NoReply

\* from the end of writeFile to the next file's await, or to the response
UploadInsert(s) ==
    /\ before' = db
    /\ UNCHANGED elsewhere
    /\ UNCHANGED <<pending, clock, hist, disk>>
    /\ uploading[s].stage = "written"
    /\ uuid.image <= MaxImages
    /\ LET h == uploading[s]
           rest == NextFiles(Tail(h.files)) IN
       IF ForeignKeyViolated(db.products, h.id)
       THEN /\ resp' = ImageReply("POST /api/products/:id/images", h.id, FormBody(h.form),
                                  productsCatch(ForeignKeyConstraintFailed).status,
                                  productsCatch(ForeignKeyConstraintFailed).error, {})
            /\ uploading' = [uploading EXCEPT ![s] = Idle]
            /\ uuid' = [uuid EXCEPT !.image = @ + 1]
            /\ UNCHANGED db
       ELSE /\ db' = [db EXCEPT !.product_images =
                        insertProductImage(@, uuid.image, h.id, publicUrl(h.id, h.name), 0,
                                           h.createdAt)]
            /\ IF rest = <<>>
               THEN /\ resp' = ImageReply("POST /api/products/:id/images", h.id,
                                          FormBody(h.form), 201, "",
                                          h.saved \cup {uuid.image})
                    /\ uploading' = [uploading EXCEPT ![s] = Idle]
                    /\ uuid' = [uuid EXCEPT !.image = @ + 1]
               ELSE /\ uuid.file <= MaxFiles
                    /\ uuid' = [uuid EXCEPT !.image = @ + 1, !.file = @ + 1]
                    /\ uploading' = [uploading EXCEPT ![s] =
                                        Handler("write", h.id, h.createdAt, h.form, rest,
                                                uuid.file, h.saved \cup {uuid.image})]
                    /\ resp' = NoReply

\* ------------------------------------------------ DELETE /api/products/:id/images/:imageId
\* `if (!image || image.productId !== id)`
ImageNotFound_IgnoresOwner(rows, id, imageId) == getImageById(rows, imageId) = {}

ImageNotFound(rows, id, imageId) ==
    \/ getImageById(rows, imageId) = {}
    \/ rows[imageId].productId # id

DeleteImage(id, imageId) ==
    /\ before' = db
    /\ UNCHANGED elsewhere
    /\ UNCHANGED <<uuid, pending, clock, hist, uploading>>
    /\ IF getProductById(db.products, id) = {}
       THEN /\ resp' = ImageReply("DELETE /api/products/:id/images/:imageId", id,
                                  NoImageBody, 404, "Product not found", {imageId})
            /\ UNCHANGED <<db, disk>>
       ELSE IF ImageNotFound(db.product_images, id, imageId)
       THEN /\ resp' = ImageReply("DELETE /api/products/:id/images/:imageId", id,
                                  NoImageBody, 404, "Image not found", {imageId})
            /\ UNCHANGED <<db, disk>>
       ELSE /\ disk' = IF startsWithUploads(db.product_images[imageId].url)
                       THEN disk \ {localPath(db.product_images[imageId].url)}
                       ELSE disk
            /\ db' = [db EXCEPT !.product_images = deleteImageById(@, imageId)]
            /\ resp' = ImageReply("DELETE /api/products/:id/images/:imageId", id,
                                  NoImageBody, 204, "", {imageId})

\* ------------------------------------------------ images added and listed
\* while products are created and deleted
ImageSpecBodies == { Body("N1", "D1", 10, "A1"), Body("N2", "D2", 15, "B2") }

NextImages ==
    \/ Await
    \/ \E body \in ImageSpecBodies : CreateProduct(body)
    \/ \E id \in RouteIds(uuid.product) : DeleteProduct(id)
    \/ \E id \in RouteIds(uuid.product) : ListImages(id)
    \/ \E id \in RouteIds(uuid.product), contentType \in ContentTypes : AddImage(id, contentType)
    \/ \E s \in Slots, body \in ImageBodies : AddImageJson(s, body)
    \/ \E s \in Slots, files \in FormInputs : AddImageForm(s, files)
    \/ \E s \in Slots : UploadWrite(s)
    \/ \E s \in Slots : UploadInsert(s)

SpecImages == Init /\ [][NextImages]_vars

\* ------------------------------------------------ images deleted, after they
\* were added by URL or uploaded
NextImageDelete ==
    \/ Await
    \/ \E body \in ImageSpecBodies : CreateProduct(body)
    \/ \E id \in Issued(uuid.product) : DeleteProduct(id)
    \/ \E id \in Issued(uuid.product) :
          \E contentType \in {"application/json", "multipart/form-data"} :
             AddImage(id, contentType)
    \/ \E s \in Slots : AddImageJson(s, ImageBody(RemoteUrl, NoPosition))
    \/ \E s \in Slots : AddImageForm(s, <<"File">>)
    \/ \E s \in Slots : UploadWrite(s)
    \/ \E s \in Slots : UploadInsert(s)
    \/ \E id \in RouteIds(uuid.product), imageId \in RouteIds(uuid.image) :
          DeleteImage(id, imageId)

SpecImageDelete == Init /\ [][NextImageDelete]_vars


\* ====================================================== cart (cart.ts, index.ts)
Sessions == {"s1", "s2"}
SessionInputs == Sessions \cup {""}
EmptyString == -1               \* productId: "" in an add-item body
MaxQuantity == 100
ValidQuantities == {2, MaxQuantity}

AddBody(p, q) == [productId |-> p, quantity |-> q]
QuantityBody(q) == [quantity |-> q]

\* z.string().min(1) of sessionId
createCartSchema(sessionId) == sessionId # ""

\* z.number().int().min(1).max(100)
QuantityInRange(q) == q >= 1 /\ q <= MaxQuantity

addToCartSchema(body) == body.productId # EmptyString /\ QuantityInRange(body.quantity)

updateCartItemSchema(body) == QuantityInRange(body.quantity)

CartReply(route, id, body, status, error, cart) ==
    [route |-> route, id |-> id, body |-> body, status |-> status, error |-> error,
     cart |-> cart]

NoCart == [id |-> UnknownId, sessionId |-> "", items |-> {}, totalItems |-> 0, totalPrice |-> 0]

\* (sum, it) => sum + (it.quantity ?? 0)
lineQuantity(it) == it.quantity

\* (sum, it) => sum + (it.product.price * it.quantity)
lineTotal_IgnoresQuantity(it) == it.price

lineTotal(it) == it.price * it.quantity

RECURSIVE totalItems(_)
\* items.reduce(..., 0) of totalItems
totalItems(items) ==
    IF items = {} THEN 0
    ELSE LET it == CHOOSE x \in items : TRUE IN lineQuantity(it) + totalItems(items \ {it})

RECURSIVE totalPrice(_)
\* items.reduce(..., 0) of totalPrice
totalPrice(items) ==
    IF items = {} THEN 0
    ELSE LET it == CHOOSE x \in items : TRUE IN lineTotal(it) + totalPrice(items \ {it})

\* ------------------------------------------------ cart.ts
\* createCart: the row it inserts and the cart it returns
createCart(d, id, sessionId, now) ==
    [d EXCEPT !.carts =
        [c \in DOMAIN @ \cup {id} |->
            IF c = id THEN [session_id |-> sessionId, created_at |-> now, updated_at |-> now]
            ELSE @[c]]]

createdCart(id, sessionId) ==
    [id |-> id, sessionId |-> sessionId, items |-> {}, totalItems |-> 0, totalPrice |-> 0]

\* getCartWithItems: the rows of `carts c LEFT JOIN cart_items ci LEFT JOIN
\* products p WHERE c.session_id = ?`
SessionCarts_None(d, sessionId) == {}

SessionCarts_OtherSessions(d, sessionId) ==
    {c \in DOMAIN d.carts : d.carts[c].session_id # sessionId}

SessionCarts(d, sessionId) == {c \in DOMAIN d.carts : d.carts[c].session_id = sessionId}

\* rows[0] under ORDER BY c.created_at DESC: a cart of the session created last
BaseCarts(d, sessionId) ==
    {c \in SessionCarts(d, sessionId) :
        \A o \in SessionCarts(d, sessionId) : d.carts[o].created_at <= d.carts[c].created_at}

\* rows.filter((r) => r.item_id).map(...): p.price is NULL without a product row
joinedItems(d, sessionId) ==
    { [id |-> i, cartId |-> d.cart_items[i].cart_id,
       productId |-> d.cart_items[i].product_id,
       quantity |-> d.cart_items[i].quantity,
       price |-> IF d.cart_items[i].product_id \in DOMAIN d.products
                 THEN d.products[d.cart_items[i].product_id].price ELSE 0]
      : i \in {j \in DOMAIN d.cart_items : d.cart_items[j].cart_id \in SessionCarts(d, sessionId)} }

getCartWithItems(d, sessionId, base) ==
    LET items == joinedItems(d, sessionId) IN
    [id |-> base, sessionId |-> d.carts[base].session_id, items |-> items,
     totalItems |-> totalItems(items),
     totalPrice |-> totalPrice(items)]

\* addToCart: existingItem, the row SELECT ... WHERE cart_id = ? AND product_id = ? gets
existingItem_Never(d, cartId, productId) == {}

existingItem(d, cartId, productId) ==
    LET found == ItemsOf(d, cartId, productId) IN
    IF found = {} THEN {} ELSE {CHOOSE i \in found : \A j \in found : i <= j}

\* UPDATE cart_items SET quantity = quantity + ?, updated_at = ? WHERE id = ?
incrementQuantity_Overwrites(d, id, quantity, now) ==
    [d EXCEPT !.cart_items[id].quantity = quantity, !.cart_items[id].updated_at = now]

incrementQuantity_Lost(d, id, quantity, now) ==
    [d EXCEPT !.cart_items[id].updated_at = now]

incrementQuantity(d, id, quantity, now) ==
    [d EXCEPT !.cart_items[id].quantity = @ + quantity, !.cart_items[id].updated_at = now]

\* INSERT INTO cart_items (id, cart_id, product_id, quantity, created_at, updated_at)
insertCartItem(d, id, cartId, productId, quantity, now) ==
    [d EXCEPT !.cart_items =
        [i \in DOMAIN @ \cup {id} |->
            IF i = id
            THEN [cart_id |-> cartId, product_id |-> productId, quantity |-> quantity,
                  created_at |-> now, updated_at |-> now]
            ELSE @[i]]]

\* UPDATE cart_items SET quantity = ?, updated_at = ? WHERE id = ?
updateCartItem_Adds(d, itemId, quantity, now) ==
    IF itemId \in DOMAIN d.cart_items
    THEN [d EXCEPT !.cart_items[itemId].quantity = @ + quantity,
                   !.cart_items[itemId].updated_at = now]
    ELSE d

updateCartItem(d, itemId, quantity, now) ==
    IF itemId \in DOMAIN d.cart_items
    THEN [d EXCEPT !.cart_items[itemId].quantity = quantity,
                   !.cart_items[itemId].updated_at = now]
    ELSE d

\* DELETE FROM cart_items WHERE id = ?
removeFromCart_ByCart(d, itemId) ==
    IF itemId \in DOMAIN d.cart_items
    THEN [d EXCEPT !.cart_items =
            [i \in {j \in DOMAIN @ : @[j].cart_id # @[itemId].cart_id} |-> @[i]]]
    ELSE d

removeFromCart(d, itemId) ==
    [d EXCEPT !.cart_items = [i \in DOMAIN @ \ {itemId} |-> @[i]]]

\* DELETE FROM cart_items WHERE cart_id = ?
clearCart_AllCarts(d, cartId) == [d EXCEPT !.cart_items = <<>>]

clearCart(d, cartId) ==
    [d EXCEPT !.cart_items = [i \in {j \in DOMAIN @ : @[j].cart_id # cartId} |-> @[i]]]

CreateCart(sessionId) ==
    /\ before' = db
    /\ UNCHANGED elsewhere
    /\ UNCHANGED <<uploading, disk>>
    /\ pending > 0
    /\ pending' = pending - 1
    /\ UNCHANGED <<clock, hist>>
    /\ IF ~createCartSchema(sessionId)
       THEN /\ resp' = CartReply("POST /api/cart", UnknownId, sessionId,
                                 cartCatch(ZodError).status, cartCatch(ZodError).error, NoCart)
            /\ UNCHANGED <<db, uuid>>
       ELSE IF SessionCarts(db, sessionId) # {}
       THEN /\ \E base \in BaseCarts(db, sessionId) :
                 resp' = CartReply("POST /api/cart", UnknownId, sessionId, 201, "",
                                   getCartWithItems(db, sessionId, base))
            /\ UNCHANGED <<db, uuid>>
       ELSE /\ uuid.cart <= MaxCarts
            /\ uuid' = [uuid EXCEPT !.cart = @ + 1]
            /\ db' = createCart(db, uuid.cart, sessionId, clock)
            /\ resp' = CartReply("POST /api/cart", UnknownId, sessionId, 201, "",
                                 createdCart(uuid.cart, sessionId))

\* ------------------------------------------------ GET /api/cart/:sessionId
GetCart(sessionId) ==
    /\ before' = db
    /\ UNCHANGED elsewhere
    /\ UNCHANGED <<uploading, disk>>
    /\ UNCHANGED <<pending, clock, hist>>
    /\ IF SessionCarts(db, sessionId) # {}
       THEN /\ \E base \in BaseCarts(db, sessionId) :
                 resp' = CartReply("GET /api/cart/:sessionId", UnknownId, sessionId, 200, "",
                                   getCartWithItems(db, sessionId, base))
            /\ UNCHANGED <<db, uuid>>
       ELSE /\ uuid.cart <= MaxCarts
            /\ uuid' = [uuid EXCEPT !.cart = @ + 1]
            /\ db' = createCart(db, uuid.cart, sessionId, clock)
            /\ resp' = CartReply("GET /api/cart/:sessionId", UnknownId, sessionId, 200, "",
                                 createdCart(uuid.cart, sessionId))

AddItem(cartId, body) ==
    /\ before' = db
    /\ UNCHANGED elsewhere
    /\ UNCHANGED <<uploading, disk>>
    /\ pending > 0
    /\ pending' = pending - 1
    /\ UNCHANGED clock
    /\ IF ~addToCartSchema(body)
       THEN /\ resp' = CartReply("POST /api/cart/:cartId/items", cartId, body,
                                 cartCatch(ZodError).status, cartCatch(ZodError).error, NoCart)
            /\ UNCHANGED <<db, uuid, hist>>
       ELSE LET existing == existingItem(db, cartId, body.productId) IN
            IF existing # {}
            THEN /\ hist.adds < MaxAdds
                 /\ \E id \in existing : db' = incrementQuantity(db, id, body.quantity, clock)
                 /\ resp' = CartReply("POST /api/cart/:cartId/items", cartId, body, 201, "", NoCart)
                 /\ hist' = Recorded(hist, db', <<>>, <<cartId, body.productId>>, body.quantity)
                 /\ UNCHANGED uuid
            ELSE IF \/ ForeignKeyViolated(db.carts, cartId)
                    \/ ForeignKeyViolated(db.products, body.productId)
            THEN /\ resp' = CartReply("POST /api/cart/:cartId/items", cartId, body,
                                      cartCatch(ForeignKeyConstraintFailed).status,
                                      cartCatch(ForeignKeyConstraintFailed).error, NoCart)
                 /\ UNCHANGED <<db, uuid, hist>>
            ELSE /\ hist.adds < MaxAdds
                 /\ uuid.item <= MaxItems
                 /\ uuid' = [uuid EXCEPT !.item = @ + 1]
                 /\ db' = insertCartItem(db, uuid.item, cartId, body.productId, body.quantity, clock)
                 /\ resp' = CartReply("POST /api/cart/:cartId/items", cartId, body, 201, "", NoCart)
                 /\ hist' = Recorded(hist, db', <<>>, <<cartId, body.productId>>, body.quantity)

UpdateItem(itemId, body) ==
    /\ before' = db
    /\ UNCHANGED elsewhere
    /\ UNCHANGED <<uploading, disk>>
    /\ pending > 0
    /\ pending' = pending - 1
    /\ UNCHANGED <<uuid, clock>>
    /\ IF ~updateCartItemSchema(body)
       THEN /\ resp' = CartReply("PUT /api/cart/items/:itemId", itemId, body,
                                 cartCatch(ZodError).status, cartCatch(ZodError).error, NoCart)
            /\ UNCHANGED <<db, hist>>
       ELSE IF itemId \notin DOMAIN db.cart_items
       THEN /\ resp' = CartReply("PUT /api/cart/items/:itemId", itemId, body, 404, "Item nao encontrado", NoCart)
            /\ UNCHANGED <<db, hist>>
       ELSE /\ db' = updateCartItem(db, itemId, body.quantity, clock)
            /\ resp' = CartReply("PUT /api/cart/items/:itemId", itemId, body, 200, "", NoCart)
            /\ hist' = Recorded(hist, db',
                                <<db.cart_items[itemId].cart_id, db.cart_items[itemId].product_id>>,
                                <<>>, body.quantity)

\* ------------------------------------------------ DELETE /api/cart/items/:itemId
RemoveItem(itemId) ==
    /\ before' = db
    /\ UNCHANGED elsewhere
    /\ UNCHANGED <<uploading, disk>>
    /\ UNCHANGED <<uuid, pending, clock>>
    /\ db' = removeFromCart(db, itemId)
    /\ resp' = CartReply("DELETE /api/cart/items/:itemId", itemId, QuantityBody(0), 200, "", NoCart)
    /\ hist' = Recorded(hist, db', <<>>, <<>>, 0)

\* ------------------------------------------------ DELETE /api/cart/:cartId
ClearCart(cartId) ==
    /\ before' = db
    /\ UNCHANGED elsewhere
    /\ UNCHANGED <<uploading, disk>>
    /\ UNCHANGED <<uuid, pending, clock>>
    /\ db' = clearCart(db, cartId)
    /\ resp' = CartReply("DELETE /api/cart/:cartId", cartId, QuantityBody(0), 200, "", NoCart)
    /\ hist' = Recorded(hist, db', <<>>, <<>>, 0)

\* ------------------------------------------------ requests of the cart routes
StoredAddRequests ==
    {<<c, AddBody(p, q)>> : c \in Issued(uuid.cart), p \in Issued(uuid.product),
                           q \in ValidQuantities}

AddRequests ==
    StoredAddRequests
        \cup { <<1, AddBody(UnknownId, 2)>>, <<1, AddBody(1, 0)>>,
               <<1, AddBody(1, MaxQuantity + 1)>>, <<1, AddBody(EmptyString, 2)>> }

UpdateRequests ==
    {<<i, QuantityBody(q)>> : i \in Issued(uuid.item), q \in ValidQuantities}
        \cup { <<UnknownId, QuantityBody(2)>>, <<1, QuantityBody(0)>>,
               <<1, QuantityBody(MaxQuantity + 1)>> }

\* ------------------------------------------------ add-item requests one after
\* another, between removals, over products and carts created through their routes
ItemSpecBodies == { Body("N1", "D1", 10, "A1"), Body("N2", "D2", 15, "B2") }

NextCartAdds ==
    \/ Await
    \/ \E body \in ItemSpecBodies : CreateProduct(body)
    \/ \E sessionId \in Sessions : CreateCart(sessionId)
    \/ \E r \in AddRequests : AddItem(r[1], r[2])
    \/ \E itemId \in RouteIds(uuid.item) : RemoveItem(itemId)
    \/ \E cartId \in RouteIds(uuid.cart) : ClearCart(cartId)

SpecCartAdds == Init /\ [][NextCartAdds]_vars

\* ------------------------------------------------ cart items: every route that
\* writes cart_items

NextCartItems ==
    \/ Await
    \/ \E body \in ItemSpecBodies : CreateProduct(body)
    \/ \E sessionId \in SessionInputs : CreateCart(sessionId)
    \/ \E r \in AddRequests : AddItem(r[1], r[2])
    \/ \E r \in UpdateRequests : UpdateItem(r[1], r[2])
    \/ \E itemId \in RouteIds(uuid.item) : RemoveItem(itemId)
    \/ \E cartId \in RouteIds(uuid.cart) : ClearCart(cartId)

SpecCartItems == Init /\ [][NextCartItems]_vars

\* ------------------------------------------------ cart reads: the routes that
\* decide what GET /api/cart/:sessionId shows
TotalsCreateBodies == { Body("N1", "D1", 10, "A1"), Body("N1", "D1", 10, "B2") }
TotalsUpdateBodies == { Body("N2", "D2", 15, "A1"), Body("N1", "D1", 10, "B2") }

NextCartTotals ==
    \/ Await
    \/ \E body \in TotalsCreateBodies : CreateProduct(body)
    \/ \E id \in Issued(uuid.product), body \in TotalsUpdateBodies : UpdateProduct(id, body)
    \/ \E sessionId \in Sessions : GetCart(sessionId)
    \/ \E r \in StoredAddRequests : AddItem(r[1], r[2])
    \/ \E itemId \in Issued(uuid.item) : RemoveItem(itemId)

SpecCartTotals == Init /\ [][NextCartTotals]_vars

\* ------------------------------------------------ get-or-create by session,
\* through both routes, of carts that fill up meanwhile
NextCartSessions ==
    \/ Await
    \/ \E body \in ItemSpecBodies : CreateProduct(body)
    \/ \E sessionId \in SessionInputs : CreateCart(sessionId)
    \/ \E sessionId \in Sessions : GetCart(sessionId)
    \/ \E r \in StoredAddRequests : AddItem(r[1], r[2])

SpecCartSessions == Init /\ [][NextCartSessions]_vars

\* ------------------------------------------------ requests whose handlers throw:
\* image adds of a product deleted meanwhile, cart requests the schemas or the
\* foreign keys reject
ThrowingAddRequests ==
    {<<UnknownId, AddBody(p, 2)>> : p \in RouteIds(uuid.product)}
        \cup { <<UnknownId, AddBody(UnknownId, 0)>> }

NextErrors ==
    \/ Await
    \/ \E body \in ImageSpecBodies : CreateProduct(body)
    \/ \E id \in Issued(uuid.product) : DeleteProduct(id)
    \/ \E id \in Issued(uuid.product) :
          \E contentType \in {"application/json", "multipart/form-data"} :
             AddImage(id, contentType)
    \/ \E s \in Slots : AddImageJson(s, ImageBody(RemoteUrl, NoPosition))
    \/ \E s \in Slots : AddImageForm(s, <<"File">>)
    \/ \E s \in Slots : UploadWrite(s)
    \/ \E s \in Slots : UploadInsert(s)
    \/ CreateCart("")
    \/ \E r \in ThrowingAddRequests : AddItem(r[1], r[2])
    \/ UpdateItem(UnknownId, QuantityBody(0))

SpecErrors == Init /\ [][NextErrors]_vars

\* ------------------------------------------------ cart items and the rows they
\* reference: products and carts come and products go while items are added,
\* also for ids that name no row
ReferenceAddRequests ==
    {<<c, AddBody(p, 2)>> : c \in RouteIds(uuid.cart), p \in RouteIds(uuid.product)}

NextCartReferences ==
    \/ Await
    \/ \E body \in ItemSpecBodies : CreateProduct(body)
    \/ \E id \in Issued(uuid.product) : DeleteProduct(id)
    \/ \E sessionId \in Sessions : CreateCart(sessionId)
    \/ \E r \in ReferenceAddRequests : AddItem(r[1], r[2])
    \/ \E itemId \in Issued(uuid.item) : RemoveItem(itemId)

SpecCartReferences == Init /\ [][NextCartReferences]_vars


\* ====================================================== client session (lib/session.ts)
MaxTokens == 3                  \* tokens crypto.randomUUID() hands out
MaxCalls == 4                   \* calls of getSessionId and clearSession recorded

\* what the browser can hold under SESSION_KEY when the page loads: nothing,
\* an empty string, or the token of an earlier visit
StoredAtLoad == {NoItem, EmptyString, 1}

\* `!sessionId`: null and '' are falsy
Falsy_Always(sessionId) == TRUE

Falsy(sessionId) == sessionId = NoItem \/ sessionId = EmptyString

InitSession ==
    /\ db = EmptyDb
    /\ uuid = [product |-> 1, image |-> 1, cart |-> 1, item |-> 1, file |-> 1]
    /\ pending = 0
    /\ clock = 0
    /\ resp = NoReply
    /\ before = EmptyDb
    /\ hist = NoHistory
    /\ uploading = [s \in Slots |-> Idle]
    /\ disk = {}
    /\ queryClient = NoQueries
    /\ bitcoin = NoBitcoin
    /\ \E window \in BOOLEAN, stored \in StoredAtLoad :
          session = [window |-> window, localStorage |-> stored, randomUUID |-> 2,
                     returned |-> <<>>]

\* getSessionId(); `returned` records what each call returned since the page
\* loaded, with NoItem where clearSession was called
getSessionId ==
    /\ UNCHANGED <<backend, queryClient, bitcoin>>
    /\ Len(session.returned) < MaxCalls
    /\ IF ~session.window
       THEN session' = [session EXCEPT !.returned = Append(@, EmptyString)]
       ELSE IF Falsy(session.localStorage)
       THEN /\ session.randomUUID <= MaxTokens
            /\ session' = [session EXCEPT !.localStorage = session.randomUUID,
                                          !.randomUUID = @ + 1,
                                          !.returned = Append(@, session.randomUUID)]
       ELSE session' = [session EXCEPT !.returned = Append(@, session.localStorage)]

\* clearSession()
clearSession ==
    /\ UNCHANGED <<backend, queryClient, bitcoin>>
    /\ Len(session.returned) < MaxCalls
    /\ session' = [session EXCEPT
                      !.localStorage = IF session.window THEN NoItem ELSE @,
                      !.returned = Append(@, NoItem)]

NextSession ==
    \/ getSessionId
    \/ clearSession

SpecSession == InitSession /\ [][NextSession]_vars


\* ------------------------------------------------ getCartWithItems on the stores
\* the schema admits: carts.session_id is not UNIQUE, so a session can own
\* several carts.  Item i, when stored, is of product i.
ReadProducts ==
    [p \in 1..2 |->
        [id |-> p, name |-> "N1", description |-> "D1", price |-> 10 + 5 * (p - 1),
         sku |-> IF p = 1 THEN "A1" ELSE "B2", createdAt |-> 0]]

ReadCarts ==
    { [c \in 1..2 |-> [session_id |-> owner[c], created_at |-> at[c], updated_at |-> at[c]]]
      : owner \in [1..2 -> Sessions], at \in [1..2 -> 0..1] }

ReadItems ==
    { [i \in stored |->
          [cart_id |-> of[i], product_id |-> i, quantity |-> 2, created_at |-> 1,
           updated_at |-> 1]]
      : stored \in SUBSET (1..2), of \in [1..2 -> 1..2] }

InitCartRead ==
    /\ \E carts \in ReadCarts, items \in ReadItems :
          /\ db = [products |-> ReadProducts, product_images |-> <<>>, carts |-> carts,
                   cart_items |-> items]
          /\ before = db
    /\ uuid = [product |-> 3, image |-> 1, cart |-> 3, item |-> 3, file |-> 1]
    /\ pending = 0
    /\ clock = 1
    /\ resp = NoReply
    /\ hist = NoHistory
    /\ uploading = [s \in Slots |-> Idle]
    /\ disk = {}
    /\ session = NoSession
    /\ queryClient = NoQueries
    /\ bitcoin = NoBitcoin

NextCartRead == \E sessionId \in Sessions : GetCart(sessionId)

SpecCartRead == InitCartRead /\ [][NextCartRead]_vars


\* ====================================================== cart hooks of the client
\* (hooks/use-cart.ts) with the server they call.  One browser, session s1, with
\* useCart mounted; the server's cart routes act on db.
MaxMutations == 2               \* mutations in flight at once
MaxStarted == 3                 \* mutations started in one behaviour

MutationSlots == 1..MaxMutations

\* the ['cart'] query: idle, request sent, or reply on its way with `data`
Fetch(stage, data) == [stage |-> stage, data |-> data]
NoFetch == Fetch("idle", NoCart)

\* a mutation from mutate() to its last callback; previousCart is the context
\* onMutate returned (NoCart: undefined), ok the outcome of the mutationFn
Mutation(kind, stage, id, quantity, previousCart, ok) ==
    [kind |-> kind, stage |-> stage, id |-> id, quantity |-> quantity,
     previousCart |-> previousCart, ok |-> ok]
NoMutation == Mutation("none", "idle", UnknownId, 0, NoCart, FALSE)

\* what mutate() is called with: add product 1, set item 1 to a quantity the
\* server accepts or to one it rejects, remove item 1
MutationInputs ==
    { Mutation("add", "cartResp", 1, 2, NoCart, FALSE),
      Mutation("update", "onMutate", 1, 5, NoCart, FALSE),
      Mutation("update", "onMutate", 1, MaxQuantity + 1, NoCart, FALSE),
      Mutation("remove", "request", 1, 0, NoCart, FALSE) }

Client(cache, fetch, mutations, started) ==
    [mounted |-> TRUE, cache |-> cache, fetch |-> fetch, mutations |-> mutations,
     started |-> started]

\* the store when the page loads: the cart of session s1 with one item of each
\* of two products, as the routes leave it after two add-item requests
ClientDb ==
    [products |-> ReadProducts, product_images |-> <<>>,
     carts |-> [c \in {1} |-> [session_id |-> "s1", created_at |-> 0, updated_at |-> 0]],
     cart_items |-> [i \in 1..2 |->
                       [cart_id |-> 1, product_id |-> i, quantity |-> 2, created_at |-> 0,
                        updated_at |-> 0]]]

InitClient ==
    /\ db = ClientDb
    /\ before = ClientDb
    /\ uuid = [product |-> 3, image |-> 1, cart |-> 2, item |-> 3, file |-> 1]
    /\ pending = 0
    /\ clock = 1
    /\ resp = NoReply
    /\ hist = NoHistory
    /\ uploading = [s \in Slots |-> Idle]
    /\ disk = {}
    /\ session = [NoSession EXCEPT !.localStorage = 1, !.randomUUID = 2]
    /\ bitcoin = NoBitcoin
    /\ queryClient = Client(NoCart, NoFetch, [m \in MutationSlots |-> NoMutation], 0)

\* the cart GET /api/cart/:sessionId answers with
ServerCart(d) == getCartWithItems(d, "s1", CHOOSE base \in BaseCarts(d, "s1") : TRUE)

\* queryClient.invalidateQueries({ queryKey: ['cart'] }) with useCart mounted:
\* a fetch in flight is cancelled and the query is fetched again
invalidateQueries_Never(fetch) == fetch

invalidateQueries(fetch) == Fetch("sent", NoCart)

\* updatedCart of onMutate: the item's quantity replaced, the totals recalculated
updatedCart_StaleTotals(previousCart, itemId, quantity) ==
    [previousCart EXCEPT
        !.items = { IF it.id = itemId THEN [it EXCEPT !.quantity = quantity] ELSE it
                    : it \in previousCart.items }]

updatedCart(previousCart, itemId, quantity) ==
    LET items == { IF it.id = itemId THEN [it EXCEPT !.quantity = quantity] ELSE it
                   : it \in previousCart.items } IN
    [previousCart EXCEPT !.items = items,
                         !.totalItems = totalItems(items),
                         !.totalPrice = totalPrice(items)]

\* ------------------------------------------------ useCart: fetchCart
\* the query is fetched when useCart mounts with nothing cached
FetchCart ==
    /\ UNCHANGED <<backend, session, bitcoin>>
    /\ queryClient.cache = NoCart
    /\ queryClient.fetch = NoFetch
    /\ queryClient' = [queryClient EXCEPT !.fetch = Fetch("sent", NoCart)]

\* the server answers GET /api/cart/:sessionId
FetchServed ==
    /\ UNCHANGED <<backend, session, bitcoin>>
    /\ queryClient.fetch.stage = "sent"
    /\ queryClient' = [queryClient EXCEPT !.fetch = Fetch("served", ServerCart(db))]

\* cartSchema.parse(...) of the reply becomes the query's data
FetchDone ==
    /\ UNCHANGED <<backend, session, bitcoin>>
    /\ queryClient.fetch.stage = "served"
    /\ queryClient' = [queryClient EXCEPT !.cache = queryClient.fetch.data,
                                          !.fetch = NoFetch]

\* ------------------------------------------------ mutate(variables)
\* useUpdateCartItem: onMutate runs to `await queryClient.cancelQueries(...)`,
\* which cancels a fetch in flight; useAddToCart and useRemoveFromCart have no
\* onMutate and call their mutationFn at once
Mutate(m, input) ==
    /\ UNCHANGED <<backend, session, bitcoin>>
    /\ queryClient.mutations[m] = NoMutation
    /\ \A o \in MutationSlots : o < m => queryClient.mutations[o] # NoMutation
    /\ queryClient.started < MaxStarted
    /\ queryClient' = [queryClient EXCEPT
                          !.mutations[m] = input,
                          !.started = @ + 1,
                          !.fetch = IF input.kind = "update" THEN NoFetch ELSE @]

\* onMutate of useUpdateCartItem after its await: snapshot, optimistic update,
\* then the mutationFn sends the PUT
OnMutate(m) ==
    /\ UNCHANGED <<backend, session, bitcoin>>
    /\ queryClient.mutations[m].stage = "onMutate"
    /\ LET previousCart == queryClient.cache
           mu == queryClient.mutations[m] IN
       queryClient' = [queryClient EXCEPT
                          !.cache = IF previousCart # NoCart
                                    THEN updatedCart(previousCart, mu.id, mu.quantity)
                                    ELSE @,
                          !.mutations[m].previousCart = previousCart,
                          !.mutations[m].stage = "request"]

\* addToCartAPI: the reply of GET /api/cart/:sessionId gives cart.id, then the
\* POST is sent
AddCartResp(m) ==
    /\ UNCHANGED <<backend, session, bitcoin>>
    /\ queryClient.mutations[m].stage = "cartResp"
    /\ queryClient' = [queryClient EXCEPT !.mutations[m].stage = "request"]

\* ------------------------------------------------ the server handles the request
\* POST /api/cart/:cartId/items, PUT and DELETE /api/cart/items/:itemId, as
\* the routes above do; ok is response.ok
ServeMutation(m) ==
    /\ UNCHANGED <<pending, clock, resp, before, hist, uploading, disk, session, bitcoin>>
    /\ queryClient.mutations[m].stage = "request"
    /\ LET mu == queryClient.mutations[m] IN
       IF mu.kind = "add"
       THEN LET existing == existingItem(db, 1, mu.id) IN
            IF existing # {}
            THEN /\ db' = incrementQuantity(db, CHOOSE id \in existing : TRUE, mu.quantity,
                                            clock)
                 /\ UNCHANGED uuid
                 /\ queryClient' = [queryClient EXCEPT !.mutations[m].stage = "served",
                                                       !.mutations[m].ok = TRUE]
            ELSE /\ uuid.item <= MaxItems + 1      \* ClientDb holds two items already
                 /\ uuid' = [uuid EXCEPT !.item = @ + 1]
                 /\ db' = insertCartItem(db, uuid.item, 1, mu.id, mu.quantity, clock)
                 /\ queryClient' = [queryClient EXCEPT !.mutations[m].stage = "served",
                                                       !.mutations[m].ok = TRUE]
       ELSE IF mu.kind = "update"
       THEN /\ UNCHANGED uuid
            /\ IF ~updateCartItemSchema(QuantityBody(mu.quantity))
                  \/ mu.id \notin DOMAIN db.cart_items
               THEN /\ UNCHANGED db
                    /\ queryClient' = [queryClient EXCEPT !.mutations[m].stage = "served",
                                                          !.mutations[m].ok = FALSE]
               ELSE /\ db' = updateCartItem(db, mu.id, mu.quantity, clock)
                    /\ queryClient' = [queryClient EXCEPT !.mutations[m].stage = "served",
                                                          !.mutations[m].ok = TRUE]
       ELSE /\ UNCHANGED uuid
            /\ db' = removeFromCart(db, mu.id)
            /\ queryClient' = [queryClient EXCEPT !.mutations[m].stage = "served",
                                                  !.mutations[m].ok = TRUE]

\* fetch() rejects: the request never reached the server, or the server handled
\* it and its reply was lost
FetchRejects(m) ==
    /\ UNCHANGED <<backend, session, bitcoin>>
    /\ \/ queryClient.mutations[m].stage \in {"cartResp", "request"}
       \/ queryClient.mutations[m].stage = "served" /\ queryClient.mutations[m].ok
    /\ queryClient' = [queryClient EXCEPT !.mutations[m].stage = "served",
                                          !.mutations[m].ok = FALSE]

\* ------------------------------------------------ the callbacks after the mutationFn
\* useUpdateCartItem: onError restores context.previousCart, onSettled
\* invalidates; useAddToCart and useRemoveFromCart: onSuccess invalidates
Settle(m) ==
    /\ UNCHANGED <<backend, session, bitcoin>>
    /\ queryClient.mutations[m].stage = "served"
    /\ LET mu == queryClient.mutations[m] IN
       queryClient' = [queryClient EXCEPT
                          !.mutations[m] = NoMutation,
                          !.cache = IF mu.kind = "update" /\ ~mu.ok
                                       /\ mu.previousCart # NoCart
                                    THEN mu.previousCart
                                    ELSE @,
                          !.fetch = IF mu.kind = "update" \/ mu.ok
                                    THEN invalidateQueries(@)
                                    ELSE @]

NextClient ==
    \/ FetchCart
    \/ FetchServed
    \/ FetchDone
    \/ \E m \in MutationSlots, input \in MutationInputs : Mutate(m, input)
    \/ \E m \in MutationSlots : OnMutate(m)
    \/ \E m \in MutationSlots : AddCartResp(m)
    \/ \E m \in MutationSlots : ServeMutation(m)
    \/ \E m \in MutationSlots : FetchRejects(m)
    \/ \E m \in MutationSlots : Settle(m)

SpecClient == InitClient /\ [][NextClient]_vars

\* ====================================================== /bitcoin-info (example_codex_gpt5)
CACHE_TTL_MS == 10000
TickMs == 5000                  \* Date.now() is read in steps of five seconds
MaxTicks == 4

\* cache && now - cache.fetchedAt < CACHE_TTL_MS
CacheFresh_Inclusive(cache, now) ==
    cache # <<>> /\ now - cache[1].fetchedAt <= CACHE_TTL_MS

CacheFresh(cache, now) ==
    cache # <<>> /\ now - cache[1].fetchedAt < CACHE_TTL_MS

InitBitcoin ==
    /\ db = EmptyDb
    /\ uuid = [product |-> 1, image |-> 1, cart |-> 1, item |-> 1, file |-> 1]
    /\ pending = 0
    /\ clock = 0
    /\ resp = NoReply
    /\ before = EmptyDb
    /\ hist = NoHistory
    /\ uploading = [s \in Slots |-> Idle]
    /\ disk = {}
    /\ session = NoSession
    /\ queryClient = NoQueries
    /\ bitcoin = NoBitcoin

\* time passes between two steps of the server
DateNow ==
    /\ UNCHANGED <<backend, session, queryClient>>
    /\ bitcoin.now < MaxTicks * TickMs
    /\ bitcoin' = [bitcoin EXCEPT !.now = @ + TickMs]

\* GET /bitcoin-info up to `await fetch(API_URL, ...)`: answered from the
\* cache, or suspended in slot s with the `now` it sampled
GetBitcoinInfo(s) ==
    /\ UNCHANGED <<backend, session, queryClient>>
    /\ IF CacheFresh(bitcoin.cache, bitcoin.now)
       THEN /\ s = 1
            /\ bitcoin' = [bitcoin EXCEPT
                              !.res = BitcoinRes(200, bitcoin.cache[1].data, "", TRUE,
                                                 bitcoin.now)]
       ELSE /\ bitcoin.fetching[s] = <<>>
            /\ bitcoin' = [bitcoin EXCEPT !.fetching[s] = <<bitcoin.now>>]

\* fetch resolves with response.ok and response.json() resolves with data
FetchOk(s, data) ==
    /\ UNCHANGED <<backend, session, queryClient>>
    /\ bitcoin.fetching[s] # <<>>
    /\ bitcoin' = [bitcoin EXCEPT
                      !.fetching[s] = <<>>,
                      !.cache = <<[data |-> data, fetchedAt |-> bitcoin.fetching[s][1]]>>,
                      !.res = BitcoinRes(200, data, "", FALSE, bitcoin.fetching[s][1])]

\* fetch resolves with !response.ok
FetchNotOk(s, status) ==
    /\ UNCHANGED <<backend, session, queryClient>>
    /\ bitcoin.fetching[s] # <<>>
    /\ bitcoin' = [bitcoin EXCEPT
                      !.fetching[s] = <<>>,
                      !.res = BitcoinRes(status, 0, "Failed to fetch bitcoin info", FALSE,
                                         bitcoin.fetching[s][1])]

\* fetch rejects, or response.json() does: the catch block
FetchThrows(s) ==
    /\ UNCHANGED <<backend, session, queryClient>>
    /\ bitcoin.fetching[s] # <<>>
    /\ bitcoin' = [bitcoin EXCEPT
                      !.fetching[s] = <<>>,
                      !.res = BitcoinRes(500, 0, "Internal server error", FALSE,
                                         bitcoin.fetching[s][1])]

NextBitcoin ==
    \/ DateNow
    \/ \E s \in 1..MaxInflight : GetBitcoinInfo(s)
    \/ \E s \in 1..MaxInflight, data \in {1, 2} : FetchOk(s, data)
    \/ \E s \in 1..MaxInflight, status \in {429, 503} : FetchNotOk(s, status)
    \/ \E s \in 1..MaxInflight : FetchThrows(s)

SpecBitcoin == InitBitcoin /\ [][NextBitcoin]_vars

\* ================================================================ claims
StoredSkuOf(rows, sku) == {id \in DOMAIN rows : rows[id].sku = sku}

\* C1: after any sequence of create, update and delete requests, handlers
\* suspended at their await included, no two stored products have the same SKU.
C1_SkuUnique ==
    \A a \in DOMAIN db.products : \A b \in DOMAIN db.products :
        db.products[a].sku = db.products[b].sku => a = b

\* Two products are stored, a PUT has just changed a SKU and another handler
\* is still suspended at its await.
C1_Witness ==
    /\ Cardinality(DOMAIN db.products) = 2
    /\ resp.route = "PUT /api/products/:id" /\ resp.status = 200
    /\ before.products[resp.id].sku # db.products[resp.id].sku
    /\ pending > 0

\* C2 as stated: a create whose SKU is stored is always answered 400
\* 'SKU already exists', whatever the other fields are, and nothing is stored.
C2_Original ==
    (resp.route = "POST /api/products" /\ StoredSkuOf(before.products, resp.body.sku) # {})
        => /\ resp.status = 400
           /\ resp.error = "SKU already exists"
           /\ db.products = before.products

\* C2 amended: a create whose SKU is stored is answered 400 and stores nothing;
\* the error is 'SKU already exists' when the body passes validation and
\* 'Validation failed' when it does not (validation runs first).
C2_DuplicateSkuRejected ==
    (resp.route = "POST /api/products" /\ StoredSkuOf(before.products, resp.body.sku) # {})
        => /\ resp.status = 400
           /\ resp.error = IF createProductSchema(resp.body)
                           THEN "SKU already exists" ELSE "Validation failed"
           /\ db.products = before.products

\* A valid create is rejected for its SKU although name, description and price
\* differ from the stored product's.
C2_Witness ==
    /\ resp.route = "POST /api/products"
    /\ resp.error = "SKU already exists"
    /\ \E id \in DOMAIN db.products :
          /\ db.products[id].sku = resp.body.sku
          /\ db.products[id].name # resp.body.name
          /\ db.products[id].price # resp.body.price

\* C7 as stated: an update carrying the product's own current SKU never yields
\* 'SKU already exists' and succeeds with status 200.
C7_Original ==
    ( /\ resp.route = "PUT /api/products/:id"
      /\ resp.id \in DOMAIN before.products
      /\ before.products[resp.id].sku = resp.body.sku )
        => resp.error # "SKU already exists" /\ resp.status = 200

\* C7 amended: an update carrying the product's own current SKU never yields
\* 'SKU already exists'; it succeeds with status 200 when the body passes
\* validation and is answered 400 'Validation failed' otherwise.
C7_OwnSkuNoConflict ==
    ( /\ resp.route = "PUT /api/products/:id"
      /\ resp.id \in DOMAIN before.products
      /\ before.products[resp.id].sku = resp.body.sku )
        => /\ resp.error # "SKU already exists"
           /\ IF updateProductSchema(resp.body)
              THEN resp.status = 200
              ELSE resp.status = 400 /\ resp.error = "Validation failed"

\* An update keeps the SKU and changes the name while another product is stored.
C7_Witness ==
    /\ resp.route = "PUT /api/products/:id" /\ resp.status = 200
    /\ before.products[resp.id].sku = resp.body.sku
    /\ before.products[resp.id].name # resp.body.name
    /\ Cardinality(DOMAIN db.products) = 2

\* C8 as stated: an update whose SKU differs from the product's own and is held
\* by another product is rejected 400 'SKU already exists', nothing changed.
C8_Original ==
    ( /\ resp.route = "PUT /api/products/:id"
      /\ resp.id \in DOMAIN before.products
      /\ before.products[resp.id].sku # resp.body.sku
      /\ StoredSkuOf(before.products, resp.body.sku) \ {resp.id} # {} )
        => /\ resp.status = 400
           /\ resp.error = "SKU already exists"
           /\ db.products = before.products

\* C8 amended: such an update is rejected with status 400 and changes no
\* product; the error is 'SKU already exists' when the body passes validation
\* and 'Validation failed' when it does not.
C8_ForeignSkuRejected ==
    ( /\ resp.route = "PUT /api/products/:id"
      /\ resp.id \in DOMAIN before.products
      /\ before.products[resp.id].sku # resp.body.sku
      /\ StoredSkuOf(before.products, resp.body.sku) \ {resp.id} # {} )
        => /\ resp.status = 400
           /\ resp.error = IF updateProductSchema(resp.body)
                           THEN "SKU already exists" ELSE "Validation failed"
           /\ db.products = before.products

\* A valid update asks for the SKU of the other product and is refused.
C8_Witness ==
    /\ resp.route = "PUT /api/products/:id"
    /\ resp.error = "SKU already exists"
    /\ resp.id \in DOMAIN db.products
    /\ db.products[resp.id].sku # resp.body.sku
    /\ \E o \in DOMAIN db.products \ {resp.id} : db.products[o].sku = resp.body.sku

\* C9: a successful update replaces name, description, price and SKU by the
\* body's, keeps the identifier and the creation timestamp, and modifies no
\* other product.
C9_UpdateFrame ==
    (resp.route = "PUT /api/products/:id" /\ resp.status = 200)
        => /\ resp.id \in DOMAIN before.products
           /\ DOMAIN db.products = DOMAIN before.products
           /\ db.products[resp.id] =
                [name |-> resp.body.name, description |-> resp.body.description,
                 price |-> resp.body.price, sku |-> resp.body.sku,
                 createdAt |-> before.products[resp.id].createdAt]
           /\ \A o \in DOMAIN before.products \ {resp.id} : db.products[o] = before.products[o]

\* An update made after the clock moved changes all four fields of a product
\* while another product is stored.
C9_Witness ==
    /\ resp.route = "PUT /api/products/:id" /\ resp.status = 200
    /\ before.products[resp.id].name # db.products[resp.id].name
    /\ before.products[resp.id].description # db.products[resp.id].description
    /\ before.products[resp.id].price # db.products[resp.id].price
    /\ before.products[resp.id].sku # db.products[resp.id].sku
    /\ db.products[resp.id].createdAt < clock
    /\ Cardinality(DOMAIN db.products) = 2

\* C3: while add-item requests follow one another on a (cart, product) pair,
\* the pair's stored item holds the sum of the quantities they carried.
C3_AddsSum ==
    \A p \in Pairs :
        \A i \in ItemsOf(db, p[1], p[2]) : db.cart_items[i].quantity = hist.sum[p]

\* An add-item request has just raised the quantity an earlier one stored.
C3_Witness ==
    /\ resp.route = "POST /api/cart/:cartId/items" /\ resp.status = 201
    /\ \E i \in ItemsOf(before, resp.id, resp.body.productId) :
          /\ before.cart_items[i].quantity # resp.body.quantity
          /\ db.cart_items[i].quantity = before.cart_items[i].quantity + resp.body.quantity
          /\ hist.sum[<<resp.id, resp.body.productId>>] = db.cart_items[i].quantity

\* C4: after any add-item, update-quantity, remove-item and clear-cart requests
\* no two cart items share their cart and product, and an add-item request for
\* a product already in the cart adds its quantity to the item there and
\* inserts no row.
C4_OneItemPerPair ==
    /\ \A i \in DOMAIN db.cart_items : \A j \in DOMAIN db.cart_items :
          ( /\ db.cart_items[i].cart_id = db.cart_items[j].cart_id
            /\ db.cart_items[i].product_id = db.cart_items[j].product_id ) => i = j
    /\ ( /\ resp.route = "POST /api/cart/:cartId/items" /\ resp.status = 201
         /\ ItemsOf(before, resp.id, resp.body.productId) # {} )
          => /\ DOMAIN db.cart_items = DOMAIN before.cart_items
             /\ \A i \in ItemsOf(before, resp.id, resp.body.productId) :
                   db.cart_items[i].quantity
                       = before.cart_items[i].quantity + resp.body.quantity

\* A product already in the cart is added again: the cart still holds one item
\* for it, with the quantity raised.
C4_Witness ==
    /\ resp.route = "POST /api/cart/:cartId/items" /\ resp.status = 201
    /\ ItemsOf(before, resp.id, resp.body.productId) # {}
    /\ Cardinality(ItemsOf(db, resp.id, resp.body.productId)) = 1
    /\ \E i \in ItemsOf(db, resp.id, resp.body.productId) :
          db.cart_items[i].quantity > resp.body.quantity

\* C5 as stated: after add-item and update-quantity requests that each pass
\* validation, every stored cart item has a quantity between 1 and 100.
C5_QuantityInRange ==
    \A i \in DOMAIN db.cart_items :
        db.cart_items[i].quantity >= 1 /\ db.cart_items[i].quantity <= MaxQuantity

\* An add-item request that passed validation has left its item with more
\* than 100 units.
C5_Witness ==
    /\ resp.route = "POST /api/cart/:cartId/items" /\ resp.status = 201
    /\ addToCartSchema(resp.body)
    /\ \E i \in ItemsOf(db, resp.id, resp.body.productId) :
          db.cart_items[i].quantity > MaxQuantity

RECURSIVE QuantitySum(_, _)
QuantitySum(d, ids) ==
    IF ids = {} THEN 0
    ELSE LET i == CHOOSE x \in ids : TRUE IN
         d.cart_items[i].quantity + QuantitySum(d, ids \ {i})

RECURSIVE PriceSum(_, _)
PriceSum(d, ids) ==
    IF ids = {} THEN 0
    ELSE LET i == CHOOSE x \in ids : TRUE IN
         d.cart_items[i].quantity * d.products[d.cart_items[i].product_id].price
             + PriceSum(d, ids \ {i})

CartItemIds(d, cartId) == {i \in DOMAIN d.cart_items : d.cart_items[i].cart_id = cartId}

\* C6: every read of a cart returns totalItems = the sum of its items'
\* quantities and totalPrice = the sum over its items of quantity times the
\* price the product has at the time of the read.
C6_TotalsAtRead ==
    resp.route = "GET /api/cart/:sessionId"
        => /\ resp.status = 200
           /\ resp.cart.totalItems = QuantitySum(db, CartItemIds(db, resp.cart.id))
           /\ resp.cart.totalPrice = PriceSum(db, CartItemIds(db, resp.cart.id))

\* The scenario of the claim: 2 units were added at price 10, the price became
\* 15, and the read returns totalItems 2 and totalPrice 30.
C6_Witness ==
    /\ resp.route = "GET /api/cart/:sessionId"
    /\ resp.cart.totalItems = 2
    /\ resp.cart.totalPrice = 30
    /\ \E it \in resp.cart.items :
          it.id \in hist.repriced /\ it.quantity = 2 /\ it.price = 15

\* C10: once a product is deleted no image row is owned by it, whatever the
\* image handlers still in flight do afterwards, and every image-list request
\* for its id is answered 404.
C10_DeleteCascadesImages ==
    /\ \A i \in DOMAIN db.product_images :
          db.product_images[i].productId \in DOMAIN db.products
    /\ ( /\ resp.route = "GET /api/products/:id/images"
         /\ resp.id \in Issued(uuid.product) \ DOMAIN db.products )
          => resp.status = 404 /\ resp.error = "Product not found"

\* A product that owned a JSON-added and an uploaded image has just been
\* deleted, and its image rows went with it.
C10_Witness ==
    /\ resp.route = "DELETE /api/products/:id" /\ resp.status = 204
    /\ Cardinality(getImagesByProductId(before.product_images, resp.id)) = 2
    /\ \E i \in DOMAIN before.product_images : before.product_images[i].url.kind = "uploads"
    /\ getImagesByProductId(db.product_images, resp.id) = {}

\* C11: a delete of a product id that is not stored is answered 404 and changes
\* nothing, a second delete of a product included, and a get-by-id of an id
\* that is not stored (a deleted one included) is answered 404.
C11_DeleteMissingNotFound ==
    /\ (resp.route = "DELETE /api/products/:id" /\ resp.id \notin DOMAIN before.products)
          => /\ resp.status = 404 /\ resp.error = "Product not found"
             /\ db = before
    /\ (resp.route = "GET /api/products/:id" /\ resp.id \notin DOMAIN db.products)
          => resp.status = 404 /\ resp.error = "Product not found"

\* A product the server created and deleted is deleted again, while another
\* product is stored.
C11_Witness ==
    /\ resp.route = "DELETE /api/products/:id" /\ resp.status = 404
    /\ resp.id \in Issued(uuid.product)
    /\ resp.id \notin DOMAIN db.products
    /\ db.products # <<>>

CartsOfSession(d, sessionId) == {c \in DOMAIN d.carts : d.carts[c].session_id = sessionId}

\* C12: get-or-create through POST /api/cart (with a non-empty sessionId) or
\* GET /api/cart/:sessionId always returns a cart of the session: a new empty
\* one, the only cart added, when the session had none, and the session's cart
\* with the store unchanged when it had one; a session never has two carts, so
\* repeated calls return the same cart id.
C12_GetOrCreate ==
    /\ \A sessionId \in Sessions : Cardinality(CartsOfSession(db, sessionId)) <= 1
    /\ ( \/ resp.route = "POST /api/cart" /\ createCartSchema(resp.body)
         \/ resp.route = "GET /api/cart/:sessionId" )
          => /\ resp.status = IF resp.route = "POST /api/cart" THEN 201 ELSE 200
             /\ resp.cart.sessionId = resp.body
             /\ IF CartsOfSession(before, resp.body) = {}
                THEN /\ resp.cart.id \notin DOMAIN before.carts
                     /\ DOMAIN db.carts = DOMAIN before.carts \cup {resp.cart.id}
                     /\ db.carts[resp.cart.id].session_id = resp.body
                     /\ \A c \in DOMAIN before.carts : db.carts[c] = before.carts[c]
                     /\ resp.cart.items = {} /\ resp.cart.totalItems = 0
                     /\ db.cart_items = before.cart_items
                ELSE /\ resp.cart.id \in CartsOfSession(before, resp.body)
                     /\ db = before

\* POST /api/cart for a session that has a cart with an item in it returns
\* that cart, while the other session has a cart of its own.
C12_Witness ==
    /\ resp.route = "POST /api/cart" /\ resp.status = 201
    /\ resp.cart.id \in CartsOfSession(before, resp.body)
    /\ resp.cart.items # {}
    /\ Cardinality(DOMAIN db.carts) = 2

\* a body with an empty or missing name, description or SKU, or a price that
\* is not greater than 0
Malformed(body) ==
    \/ body.name \in {"", Undefined}
    \/ body.description \in {"", Undefined}
    \/ body.sku \in {"", Undefined}
    \/ body.price <= 0

\* C13: a create or update request with such a body is answered 400
\* 'Validation failed' and leaves the store as it was.
C13_MalformedRejected ==
    (resp.route \in {"POST /api/products", "PUT /api/products/:id"} /\ Malformed(resp.body))
        => /\ resp.status = 400
           /\ resp.error = "Validation failed"
           /\ db = before

\* An update of a stored product with price 0 is refused.
C13_Witness ==
    /\ resp.route = "PUT /api/products/:id"
    /\ resp.error = "Validation failed"
    /\ resp.id \in DOMAIN db.products
    /\ resp.body.price = 0
    /\ NonEmptyString(resp.body.name) /\ NonEmptyString(resp.body.sku)

\* C14 as stated: an update-quantity request for an item id that does not
\* exist is answered 404 and changes nothing; for an existing item the stored
\* quantity becomes the given value.
C14_Original ==
    resp.route = "PUT /api/cart/items/:itemId"
        => IF resp.id \notin DOMAIN before.cart_items
           THEN resp.status = 404 /\ db = before
           ELSE db.cart_items[resp.id].quantity = resp.body.quantity

\* C14 amended: with a quantity that passes validation, a missing item id is
\* answered 404 with nothing changed, and an existing item gets exactly the
\* given quantity while no other item changes; a quantity that fails
\* validation is answered 400 and changes nothing, whether the item exists or not.
C14_UpdateQuantity ==
    resp.route = "PUT /api/cart/items/:itemId"
        => IF ~updateCartItemSchema(resp.body)
           THEN resp.status = 400 /\ db = before
           ELSE IF resp.id \notin DOMAIN before.cart_items
           THEN resp.status = 404 /\ db = before
           ELSE /\ resp.status = 200
                /\ DOMAIN db.cart_items = DOMAIN before.cart_items
                /\ db.cart_items[resp.id].quantity = resp.body.quantity
                /\ \A i \in DOMAIN before.cart_items \ {resp.id} :
                      db.cart_items[i] = before.cart_items[i]

\* An update has just replaced the quantity of one of two stored items.
C14_Witness ==
    /\ resp.route = "PUT /api/cart/items/:itemId" /\ resp.status = 200
    /\ before.cart_items[resp.id].quantity # resp.body.quantity
    /\ db.cart_items[resp.id].quantity = resp.body.quantity
    /\ Cardinality(DOMAIN db.cart_items) = 2

\* C15: a remove-item request is answered with success whether the item exists
\* or not; afterwards the item is absent and every other row is as before, so
\* removing an id that is already absent (a second removal included) changes
\* nothing.
C15_RemoveIdempotent ==
    resp.route = "DELETE /api/cart/items/:itemId"
        => /\ resp.status = 200
           /\ DOMAIN db.cart_items = DOMAIN before.cart_items \ {resp.id}
           /\ \A i \in DOMAIN db.cart_items : db.cart_items[i] = before.cart_items[i]
           /\ db.carts = before.carts /\ db.products = before.products
           /\ resp.id \notin DOMAIN before.cart_items => db = before

\* An item the server stored and removed is removed again while another item
\* is stored.
C15_Witness ==
    /\ resp.route = "DELETE /api/cart/items/:itemId" /\ resp.status = 200
    /\ resp.id \in Issued(uuid.item)
    /\ resp.id \notin DOMAIN before.cart_items
    /\ db.cart_items # <<>>

\* C16: a clear-cart request removes every item of the cart in the route and
\* nothing else: the carts, the cart in the route included, and the items of
\* every other cart are as before.
C16_ClearCartFrame ==
    resp.route = "DELETE /api/cart/:cartId"
        => /\ resp.status = 200
           /\ DOMAIN db.cart_items =
                {i \in DOMAIN before.cart_items : before.cart_items[i].cart_id # resp.id}
           /\ \A i \in DOMAIN db.cart_items : db.cart_items[i] = before.cart_items[i]
           /\ db.carts = before.carts
           /\ db.products = before.products /\ db.product_images = before.product_images

\* Two carts held an item each; one of them has just been cleared and is
\* still stored, and the other cart's item is still there.
C16_Witness ==
    /\ resp.route = "DELETE /api/cart/:cartId"
    /\ resp.id \in DOMAIN db.carts
    /\ Cardinality(DOMAIN before.cart_items) = 2
    /\ Cardinality(DOMAIN db.cart_items) = 1

\* C17: an image delete whose product is not stored, whose image id is not
\* stored, or whose image belongs to another product than the one in the
\* route is answered 404, and the step deletes no row and no file.
C17_ImageDeleteNotFound ==
    [][ ( /\ resp'.route = "DELETE /api/products/:id/images/:imageId"
          /\ \E imageId \in resp'.images :
                \/ resp'.id \notin DOMAIN db.products
                \/ imageId \notin DOMAIN db.product_images
                \/ db.product_images[imageId].productId # resp'.id )
        => /\ resp'.status = 404
           /\ db' = db
           /\ disk' = disk ]_vars

\* The image in the route is stored, with its uploaded file on the disk, but
\* belongs to another stored product: the delete is answered 'Image not found'.
C17_Witness ==
    /\ resp.route = "DELETE /api/products/:id/images/:imageId"
    /\ resp.status = 404 /\ resp.error = "Image not found"
    /\ resp.id \in DOMAIN db.products
    /\ \E imageId \in resp.images :
          /\ imageId \in DOMAIN db.product_images
          /\ db.product_images[imageId].productId # resp.id
          /\ db.product_images[imageId].url.kind = "uploads"
          /\ filepath(db.product_images[imageId].productId,
                      db.product_images[imageId].url.name) \in disk

\* C18: a multipart image upload with no usable file (no 'images' entry, or only
\* entries that are not files) is answered 400 'No files provided' and creates
\* no image row.
C18_NoUsableFilesRejected ==
    ( /\ resp.route = "POST /api/products/:id/images"
      /\ "files" \in DOMAIN resp.body
      /\ NextFiles(resp.body.files) = <<>> )
    => /\ resp.status = 400
       /\ resp.error = "No files provided"
       /\ db.product_images = before.product_images

\* a multipart request whose only 'images' entry is a form value is answered 201
\* with an empty list
C18_Witness ==
    /\ resp.route = "POST /api/products/:id/images"
    /\ "files" \in DOMAIN resp.body
    /\ resp.body.files = <<"text">>
    /\ resp.status = 201
    /\ resp.images = {}
    /\ db.product_images = before.product_images

\* C19: a successful image-add creates exactly one image row per accepted URL
\* or file, each owned by the product in the route; an image-add for a product
\* that does not exist returns 404 and creates no row and no file.
\* the URLs or files a request body carries
Accepted(body) ==
    IF "files" \in DOMAIN body
    THEN Cardinality({k \in DOMAIN body.files : body.files[k] = "File"})
    ELSE 1

\* the rows a step inserts
InsertedImages == DOMAIN db'.product_images \ DOMAIN db.product_images

C19_OneRowPerAccepted ==
    [][ /\ \A i \in InsertedImages :
              /\ Cardinality(InsertedImages) = 1
              /\ \E s \in Slots :
                    /\ uploading[s].stage \in {"json", "written"}
                    /\ uploading'[s] # uploading[s]
                    /\ db'.product_images[i].productId = uploading[s].id
                    /\ \/ i \in uploading'[s].saved
                       \/ /\ resp'.route = "POST /api/products/:id/images"
                          /\ i \in resp'.images
        /\ ( /\ resp'.route = "POST /api/products/:id/images"
              /\ resp'.status = 201 )
           => /\ Cardinality(resp'.images) = Accepted(resp'.body)
              /\ \A i \in resp'.images :
                    /\ i \in DOMAIN db'.product_images
                    /\ db'.product_images[i].productId = resp'.id
        /\ ( /\ resp'.route = "POST /api/products/:id/images"
              /\ uploading' = uploading
              /\ resp'.id \notin DOMAIN db.products )
           => /\ resp'.status = 404
              /\ db' = db
              /\ disk' = disk ]_vars

\* an upload of two files answered 201 with two rows of the product
C19_Witness ==
    /\ resp.route = "POST /api/products/:id/images"
    /\ resp.status = 201
    /\ "files" \in DOMAIN resp.body
    /\ resp.body.files = <<"File", "File">>
    /\ Cardinality(resp.images) = 2
    /\ \A i \in resp.images :
          /\ i \in DOMAIN db.product_images
          /\ db.product_images[i].productId = resp.id
          /\ filepath(resp.id, db.product_images[i].url.name) \in disk

\* C20: every product and cart route converts an exception raised while it
\* handles a request into a 500 response with a generic message, and the
\* response does not carry the exception's message.
GenericMessages == {"Internal server error", "Erro interno do servidor"}

\* the exceptions the handler of a step raised, by what it was given and
\* what it found in the store
RaisedZodError ==
    \/ resp'.route = "POST /api/cart" /\ ~createCartSchema(resp'.body)
    \/ resp'.route = "POST /api/cart/:cartId/items" /\ ~addToCartSchema(resp'.body)
    \/ resp'.route = "PUT /api/cart/items/:itemId" /\ ~updateCartItemSchema(resp'.body)

RaisedForeignKey ==
    \/ /\ resp'.route = "POST /api/cart/:cartId/items"
       /\ addToCartSchema(resp'.body)
       /\ existingItem(db, resp'.id, resp'.body.productId) = {}
       /\ \/ ForeignKeyViolated(db.carts, resp'.id)
          \/ ForeignKeyViolated(db.products, resp'.body.productId)
    \/ \E s \in Slots :
          /\ uploading[s].stage \in {"json", "written"}
          /\ uploading'[s] # uploading[s]
          /\ ForeignKeyViolated(db.products, uploading[s].id)
          /\ uploading[s].stage = "json" => addImageByUrlSchema(resp'.body)

Raised ==
    {e \in {ZodError, ForeignKeyConstraintFailed} :
        \/ e = ZodError /\ RaisedZodError
        \/ e = ForeignKeyConstraintFailed /\ RaisedForeignKey}

\* C20 as stated: any exception is answered 500 with a generic message
C20_Original ==
    [][ \A e \in Raised :
           /\ resp'.status = 500
           /\ resp'.error \in GenericMessages
           /\ resp'.error # e.message ]_vars

\* C20 amended: an exception other than the ZodError of a schema's parse is
\* answered 500 with a generic message that is not the exception's message;
\* a ZodError is answered 400.
C20_ExceptionsGeneric ==
    [][ \A e \in Raised :
           IF e.name = "ZodError"
           THEN resp'.status = 400
           ELSE /\ resp'.status = 500
                /\ resp'.error \in GenericMessages
                /\ resp'.error # e.message ]_vars

\* an upload whose product was deleted after the file was written is answered
\* 500 'Internal server error'
C20_Witness ==
    /\ resp.route = "POST /api/products/:id/images"
    /\ resp.status = 500
    /\ resp.error = "Internal server error"
    /\ resp.id \notin DOMAIN db.products
    /\ "files" \in DOMAIN resp.body
    /\ \E f \in disk : f.product = resp.id

\* C21: the client session identifier is stable: two calls of getSessionId with
\* no clearSession between them return the same token, the one local storage
\* holds, and getSessionId never overwrites a token that local storage holds.
C21_SessionStable ==
    [][ session.window /\ Len(session'.returned) > Len(session.returned)
        => /\ \A i \in 1..(Len(session'.returned) - 1) :
                 ( /\ session'.returned[i] # NoItem
                   /\ session'.returned[i + 1] # NoItem )
                 => session'.returned[i] = session'.returned[i + 1]
           /\ session'.returned[Len(session'.returned)] = session'.localStorage
           /\ ( /\ session'.returned[Len(session'.returned)] # NoItem
                /\ session.localStorage \notin {NoItem, EmptyString} )
              => session'.localStorage = session.localStorage ]_vars

\* getSessionId generated a token, returned it again, and after clearSession
\* generated another one
C21_Witness ==
    /\ session.window
    /\ Len(session.returned) = 4
    /\ session.returned[1] = session.returned[2]
    /\ session.returned[1] \notin {NoItem, EmptyString}
    /\ session.returned[3] = NoItem
    /\ session.returned[4] \notin {NoItem, EmptyString, session.returned[1]}
    /\ session.localStorage = session.returned[4]

\* C22: an add-item request that passes validation and names a product id that
\* is not stored is answered 404 and neither creates nor increments a cart item.
C22_UnknownProductNotFound ==
    ( /\ resp.route = "POST /api/cart/:cartId/items"
      /\ addToCartSchema(resp.body)
      /\ resp.body.productId \notin DOMAIN before.products )
    => /\ resp.status = 404
       /\ db.cart_items = before.cart_items

\* such a request is answered 500 'Erro interno do servidor', nothing stored
C22_Witness ==
    /\ resp.route = "POST /api/cart/:cartId/items"
    /\ addToCartSchema(resp.body)
    /\ resp.body.productId \notin DOMAIN before.products
    /\ resp.id \in DOMAIN before.carts
    /\ resp.status = 500
    /\ resp.error = "Erro interno do servidor"
    /\ db.cart_items = before.cart_items

\* C23: concurrent add-item requests for one (cart, product) pair.
\* the quantity stored for a pair
PairQuantity(d, cartId, productId) == QuantitySum(d, ItemsOf(d, cartId, productId))

\* the store after addToCart(cartId, productId, quantity), which runs from its
\* SELECT to its UPDATE or INSERT without an await
AfterAddToCart(d, cartId, productId, quantity) ==
    LET existing == existingItem(d, cartId, productId) IN
    IF existing # {}
    THEN incrementQuantity(d, CHOOSE id \in existing : TRUE, quantity, clock)
    ELSE insertCartItem(d, uuid.item, cartId, productId, quantity, clock)

\* C23 as stated: for a stored cart and product there are two add-item requests,
\* of quantities a and b, whose handlers interleave so that the quantity stored
\* afterwards is less than the prior quantity plus a + b.  The handlers
\* interleave only at `await c.req.json()`, so an interleaving is an order of
\* the two calls of addToCart.
C23_Original ==
    \A cartId \in DOMAIN db.carts, productId \in DOMAIN db.products :
        \E a \in ValidQuantities, b \in ValidQuantities :
            PairQuantity(AfterAddToCart(AfterAddToCart(db, cartId, productId, a),
                                        cartId, productId, b),
                         cartId, productId)
                < PairQuantity(db, cartId, productId) + a + b

\* C23 amended: no interleaving of add-item requests loses an update: every
\* add-item request answered 201 raises the quantity stored for its pair by
\* exactly its quantity, also while other requests are in flight.
C23_NoLostUpdate ==
    [][ ( /\ resp'.route = "POST /api/cart/:cartId/items"
          /\ resp'.status = 201 )
        => PairQuantity(db', resp'.id, resp'.body.productId)
              = PairQuantity(db, resp'.id, resp'.body.productId) + resp'.body.quantity
       ]_vars

\* the second of two add-item requests of one pair was answered while another
\* request was in flight, and the item holds the sum of both
C23_Witness ==
    /\ resp.route = "POST /api/cart/:cartId/items"
    /\ resp.status = 201
    /\ pending > 0
    /\ hist.adds = 2
    /\ \E i \in ItemsOf(before, resp.id, resp.body.productId) :
          /\ db.cart_items[i].quantity = before.cart_items[i].quantity + resp.body.quantity
          /\ db.cart_items[i].quantity = hist.sum[<<resp.id, resp.body.productId>>]

\* C24: after an image whose url starts with /uploads/ is deleted (204), the
\* file the upload wrote for it is no longer on disk.
C24_UploadedFileRemoved ==
    ( /\ resp.route = "DELETE /api/products/:id/images/:imageId"
      /\ resp.status = 204 )
    => \A imageId \in resp.images :
          startsWithUploads(before.product_images[imageId].url)
          => filepath(before.product_images[imageId].url.product,
                      before.product_images[imageId].url.name) \notin disk

\* an uploaded image was deleted and the file of its upload is still on disk
C24_Witness ==
    /\ resp.route = "DELETE /api/products/:id/images/:imageId"
    /\ resp.status = 204
    /\ \E imageId \in resp.images :
          /\ imageId \notin DOMAIN db.product_images
          /\ startsWithUploads(before.product_images[imageId].url)
          /\ filepath(before.product_images[imageId].url.product,
                      before.product_images[imageId].url.name) \in disk
          /\ localPath(before.product_images[imageId].url) \notin disk

RECURSIVE QuantitySumOf(_)
QuantitySumOf(items) ==
    IF items = {} THEN 0
    ELSE LET it == CHOOSE x \in items : TRUE IN it.quantity + QuantitySumOf(items \ {it})

RECURSIVE PriceSumOf(_)
PriceSumOf(items) ==
    IF items = {} THEN 0
    ELSE LET it == CHOOSE x \in items : TRUE IN
         it.price * it.quantity + PriceSumOf(items \ {it})

\* C26: every client cart mutation (add item, update quantity, remove item)
\* updates the cached cart optimistically, totals recomputed, before the server
\* responds, and a failed server call restores the cached cart to the snapshot
\* taken when the mutation started.
\* the cart a mutation is to show before the server responds
OptimisticCart(cart, mu) ==
    LET items ==
            IF mu.kind = "update"
            THEN { IF it.id = mu.id THEN [it EXCEPT !.quantity = mu.quantity] ELSE it
                   : it \in cart.items }
            ELSE IF mu.kind = "add"
            THEN { IF it.productId = mu.id
                   THEN [it EXCEPT !.quantity = @ + mu.quantity] ELSE it
                   : it \in cart.items }
            ELSE { it \in cart.items : it.id # mu.id } IN
    [cart EXCEPT !.items = items,
                 !.totalItems = QuantitySumOf(items),
                 !.totalPrice = PriceSumOf(items)]

\* the step calls the mutationFn of mutation m
RequestSent(m) ==
    /\ queryClient'.mutations[m].stage \in {"cartResp", "request"}
    /\ queryClient.mutations[m].stage \notin {"cartResp", "request"}

\* the step runs the callbacks of mutation m, whose server call failed
SettledFailed(m) ==
    /\ queryClient.mutations[m].stage = "served"
    /\ ~queryClient.mutations[m].ok
    /\ queryClient'.mutations[m] = NoMutation

Settled(m) ==
    /\ queryClient.mutations[m].stage = "served"
    /\ queryClient'.mutations[m] = NoMutation

\* nothing in flight, after at least one mutation
Quiescent(q) ==
    /\ q.started > 0
    /\ q.cache # NoCart
    /\ q.fetch = NoFetch
    /\ \A m \in MutationSlots : q.mutations[m] = NoMutation

C27_SettleRefetches ==
    [][ /\ \A m \in MutationSlots : Settled(m) => queryClient'.fetch.stage = "sent"
        /\ Quiescent(queryClient') => queryClient'.cache = ServerCart(db') ]_vars

\* an add-item mutation failed after the server had stored its quantity;
\* nothing is in flight and the cached cart is not the server's cart
C27_Witness ==
    /\ queryClient.mounted
    /\ Quiescent(queryClient)
    /\ queryClient.started = 1
    /\ queryClient.cache = ServerCart(ClientDb)
    /\ ServerCart(db).totalItems = ServerCart(ClientDb).totalItems + 2

\* C28: under any interleaving of POST /api/cart and GET /api/cart/:sessionId
\* requests of one session, a cart row is only ever created for a session that
\* has no cart at that moment, so a session never has more than one.
C28_OneCartPerSession ==
    [][ /\ \A c \in DOMAIN db'.carts \ DOMAIN db.carts :
              CartsOfSession(db, db'.carts[c].session_id) = {}
        /\ Cardinality(DOMAIN db'.carts \ DOMAIN db.carts) <= 1
        /\ \A sessionId \in Sessions :
              CartsOfSession(db, sessionId) # {}
                  => CartsOfSession(db', sessionId) = CartsOfSession(db, sessionId) ]_vars

\* GET /api/cart/:sessionId has just created the session's cart while POST
\* /api/cart requests are suspended at their await, and each of them finds
\* that cart when it resumes.
C28_Witness ==
    /\ pending = MaxInflight
    /\ resp.route = "GET /api/cart/:sessionId" /\ resp.status = 200
    /\ CartsOfSession(before, resp.body) = {}
    /\ CartsOfSession(db, resp.body) = {resp.cart.id}

\* C29: every stored cart item references a stored cart and a stored product:
\* an add-item request naming an unknown cart or an unknown product stores
\* nothing and is not answered 201, and after a product is deleted no cart
\* item references it.
C29_ItemsReferenceRows ==
    /\ \A i \in DOMAIN db.cart_items :
          /\ db.cart_items[i].cart_id \in DOMAIN db.carts
          /\ db.cart_items[i].product_id \in DOMAIN db.products
    /\ ( /\ resp.route = "POST /api/cart/:cartId/items"
         /\ \/ resp.id \notin DOMAIN before.carts
            \/ resp.body.productId \notin DOMAIN before.products )
          => resp.status # 201 /\ db = before
    /\ (resp.route = "DELETE /api/products/:id" /\ resp.status = 204)
          => /\ \A i \in DOMAIN db.cart_items : db.cart_items[i].product_id # resp.id
             /\ \A i \in DOMAIN before.cart_items :
                   before.cart_items[i].product_id # resp.id
                       => i \in DOMAIN db.cart_items /\ db.cart_items[i] = before.cart_items[i]

\* A product that was in a cart has just been deleted and its cart item went
\* with it, while the item of the other product stays.
C29_Witness ==
    /\ resp.route = "DELETE /api/products/:id" /\ resp.status = 204
    /\ \E i \in DOMAIN before.cart_items : before.cart_items[i].product_id = resp.id
    /\ db.cart_items # <<>>

\* C30: /bitcoin-info answers from its cache only when the cached entry was
\* fetched less than CACHE_TTL_MS before the request, and then with the cached
\* data; otherwise the request calls the upstream API; only a successful
\* upstream response replaces the cache, with its data, and a non-OK response
\* or an exception leaves the cached entry as it was.
C30_CacheOnlyFresh ==
    [][ /\ (bitcoin'.res # bitcoin.res /\ bitcoin'.res.cached)
              => /\ bitcoin.cache # <<>>
                 /\ bitcoin'.res.now = bitcoin.now
                 /\ bitcoin.now - bitcoin.cache[1].fetchedAt < CACHE_TTL_MS
                 /\ bitcoin'.res.status = 200
                 /\ bitcoin'.res.data = bitcoin.cache[1].data
                 /\ bitcoin'.fetching = bitcoin.fetching
        /\ (\E s \in 1..MaxInflight : bitcoin.fetching[s] = <<>> /\ bitcoin'.fetching[s] # <<>>)
              => /\ \/ bitcoin.cache = <<>>
                    \/ bitcoin.now - bitcoin.cache[1].fetchedAt >= CACHE_TTL_MS
                 /\ bitcoin'.res = bitcoin.res
        /\ bitcoin'.cache # bitcoin.cache
              => /\ bitcoin'.res.status = 200 /\ ~bitcoin'.res.cached
                 /\ bitcoin'.cache = <<[data |-> bitcoin'.res.data,
                                        fetchedAt |-> bitcoin'.res.now]>>
        /\ (bitcoin'.res # bitcoin.res /\ bitcoin'.res.status # 200)
              => bitcoin'.cache = bitcoin.cache ]_vars

\* The cache holds an entry that has expired, a request called the upstream
\* API, got a non-OK response and passed its status on, and the entry is
\* still the one of the earlier successful request.
C30_Witness ==
    /\ bitcoin.cache # <<>>
    /\ bitcoin.res.status = 503 /\ ~bitcoin.res.cached
    /\ bitcoin.res.now - bitcoin.cache[1].fetchedAt >= CACHE_TTL_MS

====
